---------------------------- MODULE Spec2Model ----------------------------
(***************************************************************************)
(* A model of the solar-system viewer: the time-integrated camera control  *)
(* (camera/camera_control.rs), the input router                            *)
(* (camera/movement_control.rs) and the orbital hierarchy update           *)
(* (solar_object/render_solar_object.rs).                                  *)
(*                                                                         *)
(* Instants are whole seconds on a monotonic clock.  Angles are counted in *)
(* units of ROTATION_MULTIPLIER (PI / 180 / 5 radians, one fifth of a      *)
(* degree, the angle of one pixel of mouse movement), so that PI is 900    *)
(* units and the zenith bound PI * 0.49 is 441 units.  The unit vector     *)
(* view_direction is held by its two angles: the yaw about UP accumulated  *)
(* from the default direction (0, 0, -1) and the zenith                    *)
(* PI / 2 - acos(view_direction.y).  A position is a linear combination of *)
(* the unit vectors the camera has moved along, kept as a function from    *)
(* those vectors to their integer coefficients.                            *)
(***************************************************************************)
EXTENDS Integers, Sequences, FiniteSets, Bags, TLC

VARIABLES
    clock,              \* the value Instant::now() returns
    camera_control,     \* CameraControl {position, view_direction, movements}
    view_matrix,        \* Camera.view_matrix, what the last snapshot returned
    projection_matrix,  \* Camera.projection_matrix
    travel,             \* per axis: the sum of what Change::take returned over the run of
                        \* the axis in progress, or over the run the last call ended
    last_call,          \* the last method called on the CameraControl, with its now
    axes_in_play,       \* the two axes the user moves along in this session
    mouse_pressed,      \* MovementControl.mouse_pressed
    dragged_last,       \* the argument of the last mouse_dragged_fn call, "none" before any
    last_event,         \* the last event routed, with the mouse_dragged_fn calls it made
    solar_system,       \* the tree of RenderSolarObject, a function of the paths of its
                        \* nodes (<<>> the root, p \o <<i>> the i-th child of p)
    buffers,            \* per node: what was last written to the three uniform buffers
    inner_calls,        \* per node: the arguments and the model_matrix of the last
                        \* update_buffers_inner call on it
    earlier_times,      \* the elapsed times of the update_buffers calls before the last
    definitions,        \* the bodies parsed from data/definitions.toml, in file order
    loaded,             \* what load_solar_objects came to: nothing yet, a panic or a tree
    camera_mutex,       \* the Mutex around the CameraControl: "free" or "held"
    handler,            \* the event-loop callback in progress and its position
    keyboard,           \* the keys held down, and per axis the last key event that was
                        \* no repeat for one of its two keys
    writes,             \* the queue.write_buffer calls of the last update_buffers, in order
    handles,            \* what models() last returned: the nodes of the handles, in order
    render_target,      \* RenderTargetConfig: the sizes of the surface configuration and of
                        \* the depth texture, and the size last asked for
    frame,              \* the session of the event loop and what its frames have done
    sphere              \* create_sphere: its arguments, its loops and what it has emitted

camera_vars == <<clock, camera_control, view_matrix, projection_matrix, travel, last_call>>
router_vars == <<mouse_pressed, dragged_last, last_event>>
orbit_vars == <<solar_system, buffers, inner_calls, earlier_times>>
loader_vars == <<definitions, loaded>>
lock_vars == <<camera_mutex, handler>>
app_vars == <<writes, handles, render_target, frame, sphere>>
vars == <<camera_vars, axes_in_play, router_vars, orbit_vars, loader_vars, lock_vars,
          keyboard, app_vars>>

----------------------------------------------------------------------------
(* Bounds of the model *)

\* the clock stops advancing at MaxTime seconds, or at the bound of the specification
MaxTime == 2
MaxViewTime == 1
MaxRotateTime == 1
MaxInputTime == 1

(* Program constants, in units of ROTATION_MULTIPLIER *)

\* 2 * PI
FullTurn == 1800
\* PI * 0.49
ZenithBound == 441

----------------------------------------------------------------------------
(* camera_control.rs: Change *)

Axes == {"forward", "right", "up"}

ChangeNone == [tag |-> "None", init |-> 0, last |-> 0]

Change_positive(now) == [tag |-> "Positive", init |-> now, last |-> now]

Change_negative(now) == [tag |-> "Negative", init |-> now, last |-> now]

\* duration.as_secs_f32().powf(5.0)
ms_map(duration) == duration * duration * duration * duration * duration

\* Change::take without "*last = now"
Change_take_last_kept(self, now) ==
    CASE self.tag = "None" -> [self |-> self, result |-> 0]
      [] self.tag = "Positive" ->
            [self |-> self,
             result |-> ms_map(now - self.init) - ms_map(self.last - self.init)]
      [] self.tag = "Negative" ->
            [self |-> self,
             result |-> -(ms_map(now - self.init) - ms_map(self.last - self.init))]

\* Change::take whose None arm maps the time since the epoch as the other arms do
Change_take_idle_moves(self, now) ==
    CASE self.tag = "None" -> [self |-> self, result |-> ms_map(now)]
      [] self.tag = "Positive" ->
            [self |-> [self EXCEPT !.last = now],
             result |-> ms_map(now - self.init) - ms_map(self.last - self.init)]
      [] self.tag = "Negative" ->
            [self |-> [self EXCEPT !.last = now],
             result |-> -(ms_map(now - self.init) - ms_map(self.last - self.init))]

\* Change::take with mapper = ms_map: the new value of self and the result
Change_take(self, now) ==
    CASE self.tag = "None" -> [self |-> self, result |-> 0]
      [] self.tag = "Positive" ->
            [self |-> [self EXCEPT !.last = now],
             result |-> ms_map(now - self.init) - ms_map(self.last - self.init)]
      [] self.tag = "Negative" ->
            [self |-> [self EXCEPT !.last = now],
             result |-> -(ms_map(now - self.init) - ms_map(self.last - self.init))]

----------------------------------------------------------------------------
(* camera_control.rs: MovementDirection *)

MovementDirection == {"None", "Positive", "Negative"}

MovementDirection_positive(pressed) == IF pressed THEN "Positive" ELSE "None"

MovementDirection_negative(pressed) == IF pressed THEN "Negative" ELSE "None"

----------------------------------------------------------------------------
(* Vectors: linear combinations of unit vectors *)

\* Point3::new(0.0, 0.0, 0.0)
Origin == [k \in {} |-> 0]

\* the unit vector of a view direction
ViewVector(view_direction) ==
    [b |-> "view", az |-> view_direction.az, zen |-> view_direction.zen]

\* self.view_direction.cross(UP).normalize(): horizontal, it depends on the yaw alone
RightVector(view_direction) == [b |-> "right", az |-> view_direction.az, zen |-> 0]

UP == [b |-> "up", az |-> 0, zen |-> 0]

\* point + unit * amount
AddScaled(point, unit, amount) ==
    LET old == IF unit \in DOMAIN point THEN point[unit] ELSE 0
        new == old + amount
        keys == IF new = 0 THEN DOMAIN point \ {unit} ELSE DOMAIN point \cup {unit}
    IN  [k \in keys |-> IF k = unit THEN new ELSE point[k]]

----------------------------------------------------------------------------
(* camera_control.rs: CameraControl *)

CameraControl_default ==
    [position |-> Origin,
     view_direction |-> [az |-> 0, zen |-> 0],
     movements |-> [forward |-> ChangeNone, right |-> ChangeNone, up |-> ChangeNone]]

\* materialize_movements: the new value of self and what the three takes returned
materialize_movements(self, now) ==
    LET right == RightVector(self.view_direction)
        f == Change_take(self.movements.forward, now)
        r == Change_take(self.movements.right, now)
        u == Change_take(self.movements.up, now)
        p1 == AddScaled(self.position, ViewVector(self.view_direction), f.result)
        p2 == AddScaled(p1, right, r.result)
        p3 == AddScaled(p2, UP, u.result)
    IN  [self |-> [self EXCEPT !.position = p3,
                               !.movements = [forward |-> f.self, right |-> r.self,
                                              up |-> u.self]],
         taken |-> [forward |-> f.result, right |-> r.result, up |-> u.result]]

\* Matrix4::look_to_rh(eye, dir, UP), a function of its arguments
look_to_rh(eye, dir) == [eye |-> eye, dir |-> dir]

\* snapshot reading the position before materialize_movements has run
snapshot_stale_eye(self, now) ==
    LET m == materialize_movements(self, now)
    IN  [self |-> m.self, taken |-> m.taken,
         matrix |-> look_to_rh(self.position, m.self.view_direction)]

snapshot(self, now) ==
    LET m == materialize_movements(self, now)
    IN  [self |-> m.self, taken |-> m.taken,
         matrix |-> look_to_rh(m.self.position, m.self.view_direction)]

NewChange(now, direction) ==
    CASE direction = "None" -> ChangeNone
      [] direction = "Positive" -> Change_positive(now)
      [] direction = "Negative" -> Change_negative(now)

\* move_* leaving alone an integrator that already runs in the direction asked for
move_axis_start_kept(self, axis, now, direction) ==
    LET m == materialize_movements(self, now)
    IN  [self |-> IF direction # "None" /\ m.self.movements[axis].tag = direction
                  THEN m.self
                  ELSE [m.self EXCEPT !.movements[axis] = NewChange(now, direction)],
         taken |-> m.taken]

\* move_* with the integrator replaced before materialize_movements runs
move_axis_reset_first(self, axis, now, direction) ==
    LET reset == [self EXCEPT !.movements[axis] = NewChange(now, direction)]
        m == materialize_movements(reset, now)
    IN  [self |-> m.self, taken |-> m.taken]

\* move_* whose None arm leaves the integrator as materialize_movements left it
move_axis_stop_ignored(self, axis, now, direction) ==
    LET m == materialize_movements(self, now)
    IN  [self |-> IF direction = "None" THEN m.self
                  ELSE [m.self EXCEPT !.movements[axis] = NewChange(now, direction)],
         taken |-> m.taken]

\* move_forw_backw, move_sideways and move_vertical, which differ in the axis they set
move_axis(self, axis, now, direction) ==
    LET m == materialize_movements(self, now)
    IN  [self |-> [m.self EXCEPT !.movements[axis] = NewChange(now, direction)],
         taken |-> m.taken]

move_forw_backw(self, now, direction) == move_axis(self, "forward", now, direction)

move_sideways(self, now, direction) == move_axis(self, "right", now, direction)

move_vertical(self, now, direction) == move_axis(self, "up", now, direction)

\* f32::clamp with the lower bound forgotten
clamp_upper_only(x, lo, hi) == IF x > hi THEN hi ELSE x

clamp(x, lo, hi) == IF x < lo THEN lo ELSE IF x > hi THEN hi ELSE x

\* rotate turning the view before materialize_movements runs
rotate_turned_first(self, now, delta_x, delta_y) ==
    LET current_zen == self.view_direction.zen
        new_zen == clamp(current_zen + delta_y, -ZenithBound, ZenithBound)
        zen_change == new_zen - current_zen
        turned == [self EXCEPT !.view_direction =
                       [az |-> (self.view_direction.az + delta_x) % FullTurn,
                        zen |-> current_zen + zen_change]]
        m == materialize_movements(turned, now)
    IN  [self |-> m.self, taken |-> m.taken]

\* rotate; delta_x and delta_y in pixels are angles in units of ROTATION_MULTIPLIER
rotate(self, now, delta_x, delta_y) ==
    LET m == materialize_movements(self, now)
        current_zen == m.self.view_direction.zen
        new_zen == clamp(current_zen + delta_y, -ZenithBound, ZenithBound)
        zen_change == new_zen - current_zen
    IN  [self |-> [m.self EXCEPT !.view_direction =
                       [az |-> (m.self.view_direction.az + delta_x) % FullTurn,
                        zen |-> current_zen + zen_change]],
         taken |-> m.taken]

----------------------------------------------------------------------------
(* matrix.rs: Matrix4x4.  A matrix is held as the product that made it: the *)
(* sequence of its rotate, translate and scale factors, left to right, the  *)
(* identity being the empty product.  Adjacent factors of one kind about    *)
(* one axis are multiplied out, so that equal sequences are equal matrices. *)

Matrix4x4_identity == <<>>

\* An f32 length or factor is a whole number, or a sum of whole multiples of the
\* values of powf that are no whole numbers: a function from its terms to their
\* coefficients, none of them zero.
One == [fn |-> "one", of |-> 1]

Whole(n) == IF n = 0 THEN [term \in {} |-> 0] ELSE (One :> n)

\* a + b
Plus(a, b) ==
    LET coefficient(term) == (IF term \in DOMAIN a THEN a[term] ELSE 0)
                             + (IF term \in DOMAIN b THEN b[term] ELSE 0)
    IN  [term \in {t \in DOMAIN a \cup DOMAIN b : coefficient(t) # 0} |->
            coefficient(term)]

IsWhole(a) == DOMAIN a \subseteq {One}

\* Vector3::unit_x()
unit_x == [b |-> "x", az |-> 0, zen |-> 0]

\* Matrix4x4::rotate(axis, angle): the angle is taken % (2.0 * PI)
Matrix4x4_rotate(axis, angle) ==
    LET turned == angle % FullTurn
    IN  IF turned = 0 THEN Matrix4x4_identity
        ELSE <<[op |-> "rotate", axis |-> axis, by |-> turned]>>

\* Matrix4x4::translate with the length placed in y
Matrix4x4_translate_along_up(x) ==
    IF x = Whole(0) THEN Matrix4x4_identity
    ELSE <<[op |-> "translate", axis |-> UP, by |-> x]>>

\* Matrix4x4::translate(Vector3 {x, y: 0.0, z: 0.0})
Matrix4x4_translate(x) ==
    IF x = Whole(0) THEN Matrix4x4_identity
    ELSE <<[op |-> "translate", axis |-> unit_x, by |-> x]>>

\* Matrix4x4::scale(Vector3::new(scale, scale, scale))
Matrix4x4_scale(scale) ==
    IF scale = Whole(1) THEN Matrix4x4_identity
    ELSE <<[op |-> "scale", axis |-> "all", by |-> scale]>>

\* the product of two factors of one kind about one axis
Multiplied(left, right) ==
    CASE left.op = "rotate" -> Matrix4x4_rotate(left.axis, left.by + right.by)
      [] left.op = "translate" -> Matrix4x4_translate(Plus(left.by, right.by))
      [] left.op = "scale" ->
            IF IsWhole(left.by) /\ IsWhole(right.by)
            THEN Matrix4x4_scale(Whole(left.by[One] * right.by[One]))
            ELSE <<left, right>>

RECURSIVE Matrix4x4_mul(_, _)
\* impl Mul for Matrix4x4
Matrix4x4_mul(self, rhs) ==
    IF self = <<>> THEN rhs
    ELSE IF rhs = <<>> THEN self
    ELSE LET left == self[Len(self)]
             right == rhs[1]
         IN  IF left.op = right.op /\ left.axis = right.axis
             THEN Matrix4x4_mul(Matrix4x4_mul(SubSeq(self, 1, Len(self) - 1),
                                              Multiplied(left, right)),
                                Tail(rhs))
             ELSE self \o rhs

\* self.projection.matrix(), a matrix that is no product of the factors above
Projection_matrix == <<[op |-> "perspective", axis |-> "none", by |-> 0]>>

----------------------------------------------------------------------------
(* solar_object/render_solar_object.rs.  The scaling of a radius or distance *)
(* is computed where it is a whole number and is a term of its own where it  *)
(* is not; periods divide the angles they are applied to.                    *)

\* x.powf(1.0 / 5.0), for the fifth powers
FifthRoot(x) == CHOOSE k \in 0 .. x : k * k * k * k * k = x

\* numerator / denominator is the fifth power of a whole number
IsFifthPower(numerator, denominator) ==
    /\ numerator % denominator = 0
    /\ \E k \in 0 .. numerator \div denominator :
          k * k * k * k * k = numerator \div denominator

\* (distance / 100000.0).powf(0.6)
distance_scaling(distance) ==
    IF IsFifthPower(distance, 100000)
    THEN LET root == FifthRoot(distance \div 100000) IN Whole(root * root * root)
    ELSE [fn |-> "distance_scaling", of |-> distance] :> 1

\* (radius / 10000.0).powf(0.4)
radius_scaling(radius) ==
    IF IsFifthPower(radius, 10000)
    THEN LET root == FifthRoot(radius \div 10000) IN Whole(root * root)
    ELSE [fn |-> "radius_scaling", of |-> radius] :> 1

\* (time * 10.0)
time_scaling(time) == time * 10

\* Duration::as_secs_f64 of a Duration of whole milliseconds: a fraction of seconds
as_secs(time) == <<time, 1000>>

\* Option<T>: None is <<>> and Some(x) is <<x>>
None == <<>>

Some(x) == <<x>>

\* the children of a node of a tree, a tree being a function of the paths of its nodes
Children(tree, node) ==
    {child \in DOMAIN tree :
        Len(child) = Len(node) + 1 /\ SubSeq(child, 1, Len(node)) = node}

\* the node and all its descendants
Subtree(tree, node) ==
    {p \in DOMAIN tree : Len(p) >= Len(node) /\ SubSeq(p, 1, Len(node)) = node}

\* new_inner handing its own inverse_normals flag down to the children
RenderSolarObject_new_flag_inherited(solar_object) ==
    [node \in DOMAIN solar_object |->
        [radius_km |-> solar_object[node].radius_km,
         distance_from_parent_km |-> solar_object[node].distance_from_parent_km,
         orbital_period_days |-> solar_object[node].orbital_period_days,
         rotation_period_days |-> solar_object[node].rotation_period_days,
         tilt |-> solar_object[node].tilt,
         model_matrix |-> Matrix4x4_identity,
         inverse_normals |-> TRUE]]

\* RenderSolarObject::new and new_inner: inverse_normals is true in the call new makes
\* and false in the calls new_inner makes for the children; every mesh is created
\* with Matrix4x4::identity() as its model matrix
RenderSolarObject_new(solar_object) ==
    [node \in DOMAIN solar_object |->
        [radius_km |-> solar_object[node].radius_km,
         distance_from_parent_km |-> solar_object[node].distance_from_parent_km,
         orbital_period_days |-> solar_object[node].orbital_period_days,
         rotation_period_days |-> solar_object[node].rotation_period_days,
         tilt |-> solar_object[node].tilt,
         model_matrix |-> Matrix4x4_identity,
         inverse_normals |-> node = <<>>]]

\* the product with orbit and translate exchanged
model_matrix_translate_first(parent_matrix, orbit, translate, tilt, spin, scale, mesh) ==
    Matrix4x4_mul(Matrix4x4_mul(Matrix4x4_mul(Matrix4x4_mul(Matrix4x4_mul(Matrix4x4_mul(
        parent_matrix, translate), orbit), tilt), spin), scale), mesh)

\* let model_matrix = parent_matrix * orbit * translate * tilt * rotate * scale
\*     * *self.scene_model.model.model_matrix()
model_matrix(parent_matrix, orbit, translate, tilt, spin, scale, mesh) ==
    Matrix4x4_mul(Matrix4x4_mul(Matrix4x4_mul(Matrix4x4_mul(Matrix4x4_mul(Matrix4x4_mul(
        parent_matrix, orbit), translate), tilt), spin), scale), mesh)

\* Matrix3x3::to_mat3_inverse_transpose(source), and the product with
\* Matrix3x3::scale(-1, -1, -1) where inverse_normals is set
normal_matrix(source, inverse_normals) ==
    [inverse_transpose_of |-> source, negated |-> inverse_normals]

RECURSIVE update_buffers_inner_tilted_frame(_, _, _, _, _)
\* update_buffers_inner handing its children parent_matrix * orbit * translate * tilt
update_buffers_inner_tilted_frame(node, time, camera, parent_matrix, parent_radius) ==
    LET self == solar_system[node]
        scale == Matrix4x4_scale(radius_scaling(self.radius_km))
        spin == Matrix4x4_rotate(       \* let rotate
                    UP, time_scaling((FullTurn * as_secs(time)[1])
                                     \div (as_secs(time)[2] * self.rotation_period_days)))
        tilt == Matrix4x4_rotate(unit_x, self.tilt)
        translate == Matrix4x4_translate(
                         Plus(distance_scaling(self.distance_from_parent_km),
                              IF parent_radius = None THEN Whole(0)
                              ELSE Plus(radius_scaling(parent_radius[1]),
                                        radius_scaling(self.radius_km))))
        orbit == IF self.orbital_period_days # None
                 THEN Matrix4x4_rotate(
                          UP, time_scaling((FullTurn * as_secs(time)[1])
                                           \div (as_secs(time)[2]
                                                 * self.orbital_period_days[1])))
                 ELSE Matrix4x4_identity
        model == model_matrix(parent_matrix, orbit, translate, tilt, spin, scale,
                              self.model_matrix)
        own == [call |-> [time |-> time,
                          parent_matrix |-> parent_matrix,
                          parent_radius |-> parent_radius,
                          model_matrix |-> model],
                mvp_matrix |-> [projection |-> camera.projection_matrix,
                                view |-> camera.view_matrix,
                                model |-> model],
                mv_matrix |-> [view |-> camera.view_matrix, model |-> model],
                normal_matrix |-> normal_matrix(model, self.inverse_normals)]
    IN  [p \in Subtree(solar_system, node) |->
            IF p = node THEN own
            ELSE LET child == CHOOSE c \in Children(solar_system, node) :
                                  p \in Subtree(solar_system, c)
                 IN  update_buffers_inner_tilted_frame(
                         child, time, camera,
                         Matrix4x4_mul(Matrix4x4_mul(Matrix4x4_mul(
                             parent_matrix, orbit), translate), tilt),
                         Some(self.radius_km))[p]]

RECURSIVE update_buffers_inner(_, _, _, _, _)
\* what the call on the node writes, to its own buffers and to those of its
\* descendants, with the arguments and the model_matrix of each call
update_buffers_inner(node, time, camera, parent_matrix, parent_radius) ==
    LET self == solar_system[node]
        scale == Matrix4x4_scale(radius_scaling(self.radius_km))
        spin == Matrix4x4_rotate(       \* let rotate
                    UP, time_scaling((FullTurn * as_secs(time)[1])
                                     \div (as_secs(time)[2] * self.rotation_period_days)))
        tilt == Matrix4x4_rotate(unit_x, self.tilt)
        translate == Matrix4x4_translate(
                         Plus(distance_scaling(self.distance_from_parent_km),
                              IF parent_radius = None THEN Whole(0)
                              ELSE Plus(radius_scaling(parent_radius[1]),
                                        radius_scaling(self.radius_km))))
        orbit == IF self.orbital_period_days # None
                 THEN Matrix4x4_rotate(
                          UP, time_scaling((FullTurn * as_secs(time)[1])
                                           \div (as_secs(time)[2]
                                                 * self.orbital_period_days[1])))
                 ELSE Matrix4x4_identity
        model == model_matrix(parent_matrix, orbit, translate, tilt, spin, scale,
                              self.model_matrix)
        own == [call |-> [time |-> time,
                          parent_matrix |-> parent_matrix,
                          parent_radius |-> parent_radius,
                          model_matrix |-> model],
                mvp_matrix |-> [projection |-> camera.projection_matrix,
                                view |-> camera.view_matrix,
                                model |-> model],
                mv_matrix |-> [view |-> camera.view_matrix, model |-> model],
                normal_matrix |-> normal_matrix(model, self.inverse_normals)]
    IN  [p \in Subtree(solar_system, node) |->
            IF p = node THEN own
            ELSE LET child == CHOOSE c \in Children(solar_system, node) :
                                  p \in Subtree(solar_system, c)
                 IN  update_buffers_inner(
                         child, time, camera,
                         Matrix4x4_mul(Matrix4x4_mul(parent_matrix, orbit), translate),
                         Some(self.radius_km))[p]]

\* update_buffers adding the elapsed time to that of the call before
update_buffers_accumulating(time) ==
    LET camera == [view_matrix |-> view_matrix, projection_matrix |-> projection_matrix]
        since == IF inner_calls[<<>>] = None THEN 0 ELSE inner_calls[<<>>][1].time
        written == update_buffers_inner(<<>>, since + time, camera,
                                        Matrix4x4_identity, None)
    IN  /\ buffers' = [node \in DOMAIN solar_system |->
                          Some([mvp_matrix |-> written[node].mvp_matrix,
                                mv_matrix |-> written[node].mv_matrix,
                                normal_matrix |-> written[node].normal_matrix])]
        /\ inner_calls' = [node \in DOMAIN solar_system |-> Some(written[node].call)]
        /\ UNCHANGED solar_system

\* RenderSolarObject::update_buffers(time, queue, camera) on the root
update_buffers(time) ==
    LET camera == [view_matrix |-> view_matrix, projection_matrix |-> projection_matrix]
        written == update_buffers_inner(<<>>, time, camera, Matrix4x4_identity, None)
    IN  /\ buffers' = [node \in DOMAIN solar_system |->
                          Some([mvp_matrix |-> written[node].mvp_matrix,
                                mv_matrix |-> written[node].mv_matrix,
                                normal_matrix |-> written[node].normal_matrix])]
        /\ inner_calls' = [node \in DOMAIN solar_system |-> Some(written[node].call)]
        /\ UNCHANGED solar_system

\* the shapes of the trees of the model
Shapes ==
    {{<<>>}, {<<>>, <<1>>}, {<<>>, <<1>>, <<2>>}, {<<>>, <<1>>, <<1, 1>>}}

\* the bodies a tree of the model has at its root
RootBodies ==
    {[radius_km |-> 320000, distance_from_parent_km |-> 0, orbital_period_days |-> None,
      rotation_period_days |-> 40, tilt |-> 0],
     [radius_km |-> 320000, distance_from_parent_km |-> 0, orbital_period_days |-> None,
      rotation_period_days |-> 40, tilt |-> 150],
     [radius_km |-> 10000, distance_from_parent_km |-> 100000,
      orbital_period_days |-> Some(20), rotation_period_days |-> 20, tilt |-> 0]}

\* the bodies a tree of the model has below its root
ChildBodies ==
    {[radius_km |-> 10000, distance_from_parent_km |-> 3200000,
      orbital_period_days |-> Some(40), rotation_period_days |-> 20, tilt |-> 150],
     [radius_km |-> 320000, distance_from_parent_km |-> 100000,
      orbital_period_days |-> Some(20), rotation_period_days |-> 40, tilt |-> 150],
     [radius_km |-> 10000, distance_from_parent_km |-> 100000,
      orbital_period_days |-> None, rotation_period_days |-> 20, tilt |-> 0]}

\* a root of radius 100 without orbital period and one child of radius 10, orbital
\* period 10 and distance 50
TwoBodies ==
    (<<>> :> [radius_km |-> 100, distance_from_parent_km |-> 0,
              orbital_period_days |-> None, rotation_period_days |-> 10, tilt |-> 0])
    @@ (<<1>> :> [radius_km |-> 10, distance_from_parent_km |-> 50,
                  orbital_period_days |-> Some(10), rotation_period_days |-> 10,
                  tilt |-> 0])

\* the trees load_solar_objects returns in the model
SolarObjects ==
    UNION {{tree \in [shape -> RootBodies \cup ChildBodies] :
               /\ tree[<<>>] \in RootBodies
               /\ \A node \in shape \ {<<>>} : tree[node] \in ChildBodies} :
           shape \in Shapes}
    \cup {TwoBodies}

\* the Sun alone
SunAlone == [node \in {<<>>} |->
                [radius_km |-> 320000, distance_from_parent_km |-> 0,
                 orbital_period_days |-> None, rotation_period_days |-> 40, tilt |-> 0]]

\* no buffer written yet, no update_buffers_inner call made yet
InitBuffers ==
    /\ buffers = [node \in DOMAIN solar_system |-> None]
    /\ inner_calls = [node \in DOMAIN solar_system |-> None]
    /\ earlier_times = {}

\* the scene of the camera specifications, whose hierarchy is never updated
InitScene == solar_system = RenderSolarObject_new(SunAlone) /\ InitBuffers

\* the scene of any tree
InitHierarchy ==
    /\ solar_system \in {RenderSolarObject_new(tree) : tree \in SolarObjects}
    /\ InitBuffers

----------------------------------------------------------------------------
(* solar_object.rs: the loader of the body definitions *)

\* the number of [[Body]] tables in the file
MaxBodies == 3

\* the names a body of the file has; "Vulcan" is a name no body has
BodyNames == {"Sun", "Earth", "Moon"}

ParentNames == BodyNames \cup {"Vulcan"}

\* SolarObjectRaw {name, parent}; every texture file exists
SolarObjectRaw ==
    [name : BodyNames, parent : {None} \cup {Some(name) : name \in ParentNames}]

\* the orders in which a HashMap of the names may iterate
IterationOrders ==
    {order \in [1 .. Cardinality(BodyNames) -> BodyNames] :
        \A name \in BodyNames : \E i \in DOMAIN order : order[i] = name}

\* HashMap::from_iter over (name, body): a later body replaces an earlier one of its name
HashMap_from_iter(bodies) ==
    [name \in {bodies[i].name : i \in DOMAIN bodies} |->
        bodies[CHOOSE i \in DOMAIN bodies :
                   /\ bodies[i].name = name
                   /\ \A j \in DOMAIN bodies : bodies[j].name = name => j <= i]]

\* HashMap::remove
HashMap_remove(map, name) == [other \in DOMAIN map \ {name} |-> map[other]]

\* map.iter(), in the order of the hasher
HashMap_iter(map, order) == SelectSeq(order, LAMBDA name : name \in DOMAIN map)

\* impl From<SolarObjectRaw> for SolarObject
SolarObject_from(raw) == [name |-> raw.name, children |-> <<>>]

Panicked(message) ==
    [panic |-> Some(message), map |-> <<>>, children |-> <<>>, calls |-> 0]

RECURSIVE load_recursive(_, _, _)
RECURSIVE load_each(_, _, _)

\* the loop `for name in names` of load_recursive: the children pushed, the map left
\* and the number of load_recursive calls made, or the panic
load_each(names, map, order) ==
    IF names = <<>> THEN [panic |-> None, map |-> map, children |-> <<>>, calls |-> 0]
    ELSE IF Head(names) \notin DOMAIN map THEN Panicked("It exists")
    ELSE LET body == map[Head(names)]
             below == load_recursive(SolarObject_from(body),
                                     HashMap_remove(map, Head(names)), order)
         IN  IF below.panic # None THEN below
             ELSE LET rest == load_each(Tail(names), below.map, order)
                  IN  IF rest.panic # None THEN rest
                      ELSE [panic |-> None, map |-> rest.map,
                            calls |-> below.calls + rest.calls,
                            children |->
                                <<[name |-> body.name, children |-> below.children]>>
                                \o rest.children]

\* load_recursive taking every body left in the map for a child
load_recursive_unfiltered(parent, map, order) ==
    IF \E name \in DOMAIN map : map[name].parent = None
    THEN Panicked("Only the sun is without parent")
    ELSE LET each == load_each(HashMap_iter(map, order), map, order)
         IN  IF each.panic # None THEN each ELSE [each EXCEPT !.calls = @ + 1]

\* load_recursive(parent, map): the children of parent and the map left, or the panic
load_recursive(parent, map, order) ==
    IF \E name \in DOMAIN map : map[name].parent = None
    THEN Panicked("Only the sun is without parent")
    ELSE LET each == load_each(SelectSeq(HashMap_iter(map, order),
                                         LAMBDA name : map[name].parent[1] = parent.name),
                               map, order)
         IN  IF each.panic # None THEN each ELSE [each EXCEPT !.calls = @ + 1]

NotLoaded == [outcome |-> "none", message |-> "", sun |-> <<>>, left |-> {}, calls |-> 0]

\* load_solar_objects on the parsed file
load_solar_objects(bodies, order) ==
    LET map == HashMap_from_iter(bodies)
    IN  IF "Sun" \notin DOMAIN map
        THEN [outcome |-> "panicked", message |-> "Sun is defined", sun |-> <<>>,
              left |-> {}, calls |-> 0]
        ELSE LET sun == SolarObject_from(map["Sun"])
                 below == load_recursive(sun, HashMap_remove(map, "Sun"), order)
             IN  IF below.panic # None
                 THEN [outcome |-> "panicked", message |-> below.panic[1], sun |-> <<>>,
                       left |-> {}, calls |-> 0]
                 ELSE [outcome |-> "returned", message |-> "",
                       sun |-> [name |-> sun.name, children |-> below.children],
                       left |-> DOMAIN below.map, calls |-> below.calls]

\* the file of the Sun alone, loaded
SunDefinitions == <<[name |-> "Sun", parent |-> None]>>

InitLoaded ==
    /\ definitions = SunDefinitions
    /\ loaded = load_solar_objects(SunDefinitions, CHOOSE order \in IterationOrders : TRUE)

----------------------------------------------------------------------------
(* render_target.rs: the surface configuration and the depth texture *)

\* u32::max
Max(a, b) == IF a >= b THEN a ELSE b

\* create_depth_texture giving the texture the size it is handed
create_depth_texture_unclamped(size) == [width |-> size.width, height |-> size.height]

\* create_depth_texture(device, size): the extent of the texture
create_depth_texture(size) ==
    [width |-> Max(size.width, 1), height |-> Max(size.height, 1)]

\* RenderTargetConfig::new(size, ..)
RenderTargetConfig_new(size) ==
    LET config == [width |-> Max(size.width, 1), height |-> Max(size.height, 1)]
    IN  [config |-> config,
         depth_texture |-> create_depth_texture([width |-> config.width,
                                                 height |-> config.height]),
         requested |-> size, resized |-> FALSE]

\* RenderTargetConfig::resize(device, new_size)
RenderTargetConfig_resize(self, new_size) ==
    [config |-> [width |-> Max(new_size.width, 1), height |-> Max(new_size.height, 1)],
     depth_texture |-> create_depth_texture(new_size),
     requested |-> new_size, resized |-> TRUE]

\* the window of the camera specifications
WindowSize == [width |-> 2, height |-> 1]

\* the session before its first frame
NoFrame == [session |-> "running", result |-> "none", redraws |-> 0, snapshots |-> 0,
            buffer_writes |-> 0, submits |-> 0]

\* no sphere in the making: both Vecs empty
NoSphere == [lat_segments |-> 0, long_segments |-> 0, at |-> "none", y |-> 0, x |-> 0,
             vertices |-> 0, indices |-> 0, quad |-> <<>>, pushed |-> <<>>]

\* a window never resized, no frame drawn, no handle asked for, no sphere in the making
InitApp ==
    /\ writes = <<>>
    /\ handles = <<>>
    /\ render_target = RenderTargetConfig_new(WindowSize)
    /\ frame = NoFrame
    /\ sphere = NoSphere

----------------------------------------------------------------------------
(* The calls on the shared CameraControl *)

NoCall == [op |-> "none", now |-> 0, axis |-> "none", direction |-> "None"]

\* the bookkeeping of one call: r is what the method returned, axis and direction
\* the arguments of a move_* call ("none" and "None" for the other methods)
CalledAt(r, op, axis, direction, now) ==
    /\ UNCHANGED clock
    /\ last_call' = [op |-> op, now |-> now, axis |-> axis, direction |-> direction]
    /\ camera_control' = r.self
    /\ travel' = [a \in Axes |->
                    IF a = axis /\ direction # "None" THEN 0
                    ELSE (IF camera_control.movements[a].tag = "None" THEN 0 ELSE travel[a])
                         + r.taken[a]]

\* the bookkeeping of a call whose now is read as the call is made
Called(r, op, axis, direction) == CalledAt(r, op, axis, direction, clock)

MoveMethod(self, axis, now, direction) ==
    CASE axis = "forward" -> move_forw_backw(self, now, direction)
      [] axis = "right" -> move_sideways(self, now, direction)
      [] axis = "up" -> move_vertical(self, now, direction)

\* camera_control.lock().unwrap().move_*(Instant::now(), direction)
CallMove(axis, direction) ==
    /\ Called(MoveMethod(camera_control, axis, clock, direction), "move", axis, direction)
    /\ UNCHANGED <<view_matrix, projection_matrix>>

\* camera_control.lock().unwrap().rotate(Instant::now(), delta_x, delta_y)
CallRotate(delta_x, delta_y) ==
    /\ Called(rotate(camera_control, clock, delta_x, delta_y), "rotate", "none", "None")
    /\ UNCHANGED <<view_matrix, projection_matrix>>

\* camera_control.snapshot(now), the matrix it returns dropped
CallSnapshot ==
    /\ Called(snapshot(camera_control, clock), "snapshot", "none", "None")
    /\ UNCHANGED <<view_matrix, projection_matrix>>

\* Camera::update_view_proj_matrices(now)
update_view_proj_matrices ==
    LET s == snapshot(camera_control, clock)
    IN  /\ Called(s, "snapshot", "none", "None")
        /\ view_matrix' = s.matrix
        /\ projection_matrix' = Projection_matrix

\* time passes between two calls
Tick(max) ==
    /\ clock < max
    /\ clock' = clock + 1
    /\ UNCHANGED <<camera_control, view_matrix, projection_matrix, travel, last_call>>

\* Matrix4x4::identity(), the view matrix of Camera::new
IdentityView == look_to_rh(Origin, [az |-> 0, zen |-> 0])

NoEvent == [kind |-> "none", dragged |-> <<>>, button |-> "none"]

\* the user moves along two of the three axes
AxisPairs == {{"forward", "right"}, {"forward", "up"}, {"right", "up"}}

InitCamera ==
    /\ clock = 0
    /\ camera_control = CameraControl_default
    /\ view_matrix = IdentityView
    /\ projection_matrix = Matrix4x4_identity
    /\ travel = [a \in Axes |-> 0]
    /\ last_call = NoCall
    /\ axes_in_play \in AxisPairs

InitRouter ==
    /\ mouse_pressed = FALSE
    /\ dragged_last = "none"
    /\ last_event = NoEvent

NoInput == [kind |-> "none", key |-> "none", state |-> "none", repeat |-> FALSE,
            button |-> "none", delta |-> <<0, 0>>]

\* no key held down, no key event yet
NoKey == [key |-> "none", state |-> "none"]

InitKeyboard == keyboard = [down |-> {}, recent |-> [a \in Axes |-> NoKey]]

\* no callback of the event loop in progress, the mutex free
NoHandler == [event |-> NoInput, at |-> "idle", locks |-> 0, now |-> 0]

InitIdle ==
    /\ camera_mutex = "free"
    /\ handler = NoHandler
    /\ InitKeyboard

\* the camera, the router and the event loop of a program just started
InitInput == InitCamera /\ InitRouter /\ InitIdle

----------------------------------------------------------------------------
(* Spec: the CameraControl under any sequence of calls *)

\* the mouse movements of the model, in pixels
RotateDeltas == {<<0, 600>>}

Move(axis, direction) ==
    /\ axis \in axes_in_play
    /\ CallMove(axis, direction)
    /\ UNCHANGED <<axes_in_play, orbit_vars, loader_vars, lock_vars, keyboard, router_vars,
                   app_vars>>

MoveForwBackw == \E d \in MovementDirection : Move("forward", d)

MoveSideways == \E d \in MovementDirection : Move("right", d)

MoveVertical == \E d \in MovementDirection : Move("up", d)

Rotate == \E d \in RotateDeltas : CallRotate(d[1], d[2]) /\ UNCHANGED <<axes_in_play, orbit_vars, loader_vars, lock_vars, keyboard, router_vars,
                   app_vars>>

Snapshot == CallSnapshot /\ UNCHANGED <<axes_in_play, orbit_vars, loader_vars, lock_vars, keyboard, router_vars,
                   app_vars>>

Pass == Tick(MaxTime) /\ UNCHANGED <<axes_in_play, orbit_vars, loader_vars, lock_vars, keyboard, router_vars,
                   app_vars>>

Init == InitCamera /\ InitRouter /\ InitScene /\ InitLoaded /\ InitIdle /\ InitApp

Next == MoveForwBackw \/ MoveSideways \/ MoveVertical \/ Rotate \/ Snapshot \/ Pass

Spec == Init /\ [][Next]_vars

----------------------------------------------------------------------------
(* SpecView: the Camera that keeps the view matrix of the last snapshot *)

Frame == update_view_proj_matrices /\ UNCHANGED <<axes_in_play, orbit_vars, loader_vars, lock_vars, keyboard, router_vars,
                   app_vars>>

ViewPass == Tick(MaxViewTime) /\ UNCHANGED <<axes_in_play, orbit_vars, loader_vars, lock_vars, keyboard, router_vars,
                   app_vars>>

NextView == MoveForwBackw \/ MoveSideways \/ MoveVertical \/ Rotate \/ Frame \/ ViewPass

SpecView == Init /\ [][NextView]_vars

----------------------------------------------------------------------------
(* SpecRotate: the CameraControl under many rotations *)

\* the mouse movements of SpecRotate, in pixels
WideDeltas == {<<450, 300>>, <<-450, -500>>, <<0, 1000>>}

RotateWide ==
    \E d \in WideDeltas : CallRotate(d[1], d[2]) /\ UNCHANGED <<axes_in_play, orbit_vars, loader_vars, lock_vars, keyboard, router_vars,
                   app_vars>>

RotatePass == Tick(MaxRotateTime) /\ UNCHANGED <<axes_in_play, orbit_vars, loader_vars, lock_vars, keyboard, router_vars,
                   app_vars>>

NextRotate == RotateWide \/ MoveVertical \/ Snapshot \/ RotatePass

SpecRotate == Init /\ [][NextRotate]_vars

----------------------------------------------------------------------------
(* movement_control.rs: MovementControl *)

\* KeyQ stands for every key that is not bound
KeyCodes == {"KeyW", "KeyS", "KeyA", "KeyD", "Space", "ControlLeft", "KeyQ"}

ElementState == {"Pressed", "Released"}

MouseButtons == {"Right", "Left"}

\* match key with the directions of KeyA and KeyD exchanged
KeyBinding_sideways_swapped(key, pressed) ==
    CASE key = "KeyW" ->
            [axis |-> "forward", direction |-> MovementDirection_positive(pressed)]
      [] key = "KeyS" ->
            [axis |-> "forward", direction |-> MovementDirection_negative(pressed)]
      [] key = "KeyA" ->
            [axis |-> "right", direction |-> MovementDirection_positive(pressed)]
      [] key = "KeyD" ->
            [axis |-> "right", direction |-> MovementDirection_negative(pressed)]
      [] key = "Space" ->
            [axis |-> "up", direction |-> MovementDirection_positive(pressed)]
      [] key = "ControlLeft" ->
            [axis |-> "up", direction |-> MovementDirection_negative(pressed)]
      [] OTHER -> [axis |-> "none", direction |-> "None"]

\* the arms of match key: the method called and its direction; "none" for the arm _
KeyBinding(key, pressed) ==
    CASE key = "KeyW" ->
            [axis |-> "forward", direction |-> MovementDirection_positive(pressed)]
      [] key = "KeyS" ->
            [axis |-> "forward", direction |-> MovementDirection_negative(pressed)]
      [] key = "KeyA" ->
            [axis |-> "right", direction |-> MovementDirection_negative(pressed)]
      [] key = "KeyD" ->
            [axis |-> "right", direction |-> MovementDirection_positive(pressed)]
      [] key = "Space" ->
            [axis |-> "up", direction |-> MovementDirection_positive(pressed)]
      [] key = "ControlLeft" ->
            [axis |-> "up", direction |-> MovementDirection_negative(pressed)]
      [] OTHER -> [axis |-> "none", direction |-> "None"]

\* (self.mouse_dragged_fn)(dragging), after the events of kind
Routed(kind, dragged) ==
    last_event' = [kind |-> kind, dragged |-> dragged, button |-> "none"]

RoutedButton(button, dragged) ==
    last_event' = [kind |-> "MouseInput", dragged |-> dragged, button |-> button]

\* process_window_event, the arm WindowEvent::KeyboardInput
KeyboardInput(key, state, repeat) ==
    LET pressed == state = "Pressed"
        call == KeyBinding(key, pressed)
    IN  /\ call.axis \in axes_in_play \cup {"none"}
        /\ Routed("KeyboardInput", <<>>)
        /\ UNCHANGED <<axes_in_play, orbit_vars, loader_vars, lock_vars, mouse_pressed,
                       dragged_last, app_vars>>
        /\ IF ~repeat /\ call.axis # "none"
           THEN CallMove(call.axis, call.direction)
           ELSE UNCHANGED camera_vars

\* the arm WindowEvent::MouseInput matching on the state alone, whatever the button
MouseInput_any_button(state, button) ==
    /\ CASE state = "Pressed" ->
                /\ mouse_pressed' = TRUE
                /\ dragged_last' = "true"
                /\ RoutedButton(button, <<TRUE>>)
         [] state = "Released" ->
                /\ mouse_pressed' = FALSE
                /\ dragged_last' = "false"
                /\ RoutedButton(button, <<FALSE>>)
    /\ UNCHANGED <<camera_vars, axes_in_play, orbit_vars, loader_vars, lock_vars, keyboard,
                   app_vars>>

\* process_window_event, the arm WindowEvent::MouseInput
MouseInput(state, button) ==
    /\ CASE state = "Pressed" /\ button = "Right" ->
                /\ mouse_pressed' = TRUE
                /\ dragged_last' = "true"
                /\ RoutedButton(button, <<TRUE>>)
         [] state = "Released" /\ button = "Right" ->
                /\ mouse_pressed' = FALSE
                /\ dragged_last' = "false"
                /\ RoutedButton(button, <<FALSE>>)
         [] OTHER ->
                /\ RoutedButton(button, <<>>)
                /\ UNCHANGED <<mouse_pressed, dragged_last>>
    /\ UNCHANGED <<camera_vars, axes_in_play, orbit_vars, loader_vars, lock_vars, keyboard,
                   app_vars>>

\* the arm DeviceEvent::MouseMotion without "if self.mouse_pressed"
MouseMotion_ungated(delta_x, delta_y) ==
    /\ CallRotate(delta_x, delta_y)
    /\ Routed("MouseMotion", <<>>)
    /\ UNCHANGED <<axes_in_play, orbit_vars, loader_vars, lock_vars, keyboard, mouse_pressed, dragged_last,
                   app_vars>>

\* process_device_event, the arm DeviceEvent::MouseMotion
MouseMotion(delta_x, delta_y) ==
    /\ IF mouse_pressed
       THEN CallRotate(delta_x, delta_y)
       ELSE UNCHANGED camera_vars
    /\ Routed("MouseMotion", <<>>)
    /\ UNCHANGED <<axes_in_play, orbit_vars, loader_vars, lock_vars, keyboard, mouse_pressed, dragged_last,
                   app_vars>>

\* the arms _ => {} of process_window_event and process_device_event
OtherEvent ==
    /\ Routed("Other", <<>>)
    /\ UNCHANGED <<camera_vars, axes_in_play, orbit_vars, loader_vars, lock_vars, keyboard, mouse_pressed, dragged_last,
                   app_vars>>

----------------------------------------------------------------------------
(* SpecInput: the input router under any sequence of events *)

\* the mouse movements of SpecInput, in pixels
MotionDeltas == {<<0, 600>>}

Keyboard ==
    /\ \E key \in KeyCodes, state \in ElementState, repeat \in BOOLEAN :
          KeyboardInput(key, state, repeat)
    /\ UNCHANGED keyboard

Mouse == \E state \in ElementState, button \in MouseButtons : MouseInput(state, button)

Motion == \E d \in MotionDeltas : MouseMotion(d[1], d[2])

InputPass == Tick(MaxInputTime) /\ UNCHANGED <<axes_in_play, orbit_vars, loader_vars, lock_vars, keyboard, router_vars,
                   app_vars>>

NextInput == Keyboard \/ Mouse \/ Motion \/ OtherEvent \/ InputPass

SpecInput == Init /\ [][NextInput]_vars

----------------------------------------------------------------------------
(* SpecKeys: the keyboard alone, the mouse left untouched *)

MaxKeyTime == 1

KeyPass == Tick(MaxKeyTime) /\ UNCHANGED <<axes_in_play, orbit_vars, loader_vars, lock_vars, keyboard, router_vars,
                   app_vars>>

NextKeys == Keyboard \/ KeyPass

SpecKeys == Init /\ [][NextKeys]_vars

----------------------------------------------------------------------------
(* SpecOrbit: the hierarchy of any tree, updated at any elapsed times in any *)
(* order, with a camera that turns between the frames                        *)

\* update_buffers is called with elapsed times of 0 .. MaxElapsed seconds, and of
\* 2.5 seconds, in milliseconds
MaxElapsed == 2

ElapsedTimes == {1000 * seconds : seconds \in 0 .. MaxElapsed} \cup {2500}

\* the angles of all the nodes at the elapsed time are whole units
WholeAngles(time) ==
    \A node \in DOMAIN solar_system :
        /\ (FullTurn * time) % (1000 * solar_system[node].rotation_period_days) = 0
        /\ solar_system[node].orbital_period_days # None
           => (FullTurn * time) % (1000 * solar_system[node].orbital_period_days[1]) = 0

UpdateBuffers ==
    \E time \in ElapsedTimes :
        /\ WholeAngles(time)
        /\ update_buffers(time)
        /\ UNCHANGED <<camera_vars, axes_in_play, router_vars, earlier_times,
                       loader_vars, lock_vars, keyboard, app_vars>>

InitOrbit == InitCamera /\ InitRouter /\ InitHierarchy /\ InitLoaded /\ InitIdle /\ InitApp

NextOrbit == UpdateBuffers \/ Frame \/ Rotate

SpecOrbit == InitOrbit /\ [][NextOrbit]_vars

----------------------------------------------------------------------------
\* Successive hierarchy updates of one scene, the elapsed times of the earlier
\* calls remembered.

\* an update_buffers call at any elapsed time, after any calls at any times
UpdateAgain ==
    \E time \in ElapsedTimes :
        /\ WholeAngles(time)
        /\ update_buffers(time)
        /\ earlier_times' = earlier_times
                             \cup (IF inner_calls[<<>>] = None THEN {}
                                   ELSE {inner_calls[<<>>][1].time})
        /\ UNCHANGED <<camera_vars, axes_in_play, router_vars, loader_vars, lock_vars, keyboard,
                   app_vars>>

InitUpdates ==
    /\ InitCamera
    /\ InitRouter
    /\ solar_system \in {RenderSolarObject_new(SunAlone), RenderSolarObject_new(TwoBodies)}
    /\ InitBuffers
    /\ InitLoaded
    /\ InitIdle
    /\ InitApp

NextUpdates == UpdateAgain \/ Frame \/ Rotate

SpecUpdates == InitUpdates /\ [][NextUpdates]_vars

----------------------------------------------------------------------------
(* SpecHeld: the keyboard, with the keys that are down and the last event of *)
(* each axis remembered *)

MaxHeldTime == 1

\* the axis of a key; "none" for a key that is not bound
AxisOf(key) == KeyBinding(key, TRUE).axis

\* a key goes down, repeats or comes up, and the window delivers the event
HeldKey ==
    \E key \in KeyCodes, state \in ElementState, repeat \in BOOLEAN :
        /\ repeat => state = "Pressed" /\ key \in keyboard.down
        /\ KeyboardInput(key, state, repeat)
        /\ keyboard' =
              [down |-> IF state = "Pressed" THEN keyboard.down \cup {key}
                        ELSE keyboard.down \ {key},
               recent |-> IF repeat \/ AxisOf(key) = "none" THEN keyboard.recent
                          ELSE [keyboard.recent EXCEPT
                                    ![AxisOf(key)] = [key |-> key, state |-> state]]]

HeldPass ==
    /\ Tick(MaxHeldTime)
    /\ UNCHANGED <<axes_in_play, orbit_vars, loader_vars, lock_vars, keyboard,
                   router_vars, app_vars>>

NextHeld == HeldKey \/ HeldPass

SpecHeld == Init /\ [][NextHeld]_vars

----------------------------------------------------------------------------
(* SpecTurn: the CameraControl turned while it moves forward and sideways *)

MaxTurnTime == 1

\* the mouse movements of SpecTurn, in pixels
TurnDeltas == {<<450, 300>>}

Turn ==
    \E d \in TurnDeltas :
        /\ CallRotate(d[1], d[2])
        /\ UNCHANGED <<axes_in_play, orbit_vars, loader_vars, lock_vars, keyboard, router_vars,
                   app_vars>>

TurnPass ==
    /\ Tick(MaxTurnTime)
    /\ UNCHANGED <<axes_in_play, orbit_vars, loader_vars, lock_vars, keyboard, router_vars,
                   app_vars>>

NextTurn == MoveForwBackw \/ MoveSideways \/ MoveVertical \/ Turn \/ TurnPass

SpecTurn == Init /\ [][NextTurn]_vars

----------------------------------------------------------------------------
(* SpecLock: the callbacks of the event loop, step by step.  The one thread  *)
(* of the event loop runs a callback to its end before it takes the next     *)
(* event; time passes between the steps.                                     *)

MaxLockTime == 1

\* the mouse movements of SpecLock, in pixels
LockDeltas == {<<0, 600>>}

\* the events the event loop delivers
Events ==
    {[NoInput EXCEPT !.kind = "KeyboardInput", !.key = key, !.state = state,
                     !.repeat = repeat] :
        key \in KeyCodes, state \in ElementState, repeat \in BOOLEAN}
    \cup {[NoInput EXCEPT !.kind = "MouseInput", !.state = state, !.button = button] :
            state \in ElementState, button \in MouseButtons}
    \cup {[NoInput EXCEPT !.kind = "MouseMotion", !.delta = delta] : delta \in LockDeltas}
    \cup {[NoInput EXCEPT !.kind = "RedrawRequested"], [NoInput EXCEPT !.kind = "Other"]}

\* the method of the CameraControl a keyboard event calls
Binding(event) == KeyBinding(event.key, event.state = "Pressed")

\* where the callback of an event begins: the arm of the match it takes
Entry(event) ==
    CASE event.kind = "KeyboardInput" ->
            IF ~event.repeat /\ Binding(event).axis # "none" THEN "lock" ELSE "return"
      [] event.kind = "MouseInput" ->
            IF event.button = "Right" THEN "set_pressed" ELSE "return"
      [] event.kind = "MouseMotion" -> IF mouse_pressed THEN "lock" ELSE "return"
      [] event.kind = "RedrawRequested" -> "read_now"
      [] OTHER -> "return"

\* window_event, device_event: the event loop calls back with the next event
Dispatch ==
    /\ handler = NoHandler
    /\ \E event \in Events :
          /\ event.kind = "KeyboardInput"
             => Binding(event).axis \in axes_in_play \cup {"none"}
          /\ handler' = [event |-> event, at |-> Entry(event), locks |-> 0, now |-> 0]
    /\ UNCHANGED <<camera_vars, axes_in_play, router_vars, orbit_vars, loader_vars,
                   camera_mutex, keyboard, app_vars>>

\* render passing the Instant of the program's start instead of Instant::now()
ReadNow_stale ==
    /\ handler.at = "read_now"
    /\ handler' = [handler EXCEPT !.now = 0, !.at = "lock"]
    /\ UNCHANGED <<camera_vars, axes_in_play, router_vars, orbit_vars, loader_vars,
                   camera_mutex, keyboard, app_vars>>

\* render: Instant::now(), the argument of update_buffers
ReadNow ==
    /\ handler.at = "read_now"
    /\ handler' = [handler EXCEPT !.now = clock, !.at = "lock"]
    /\ UNCHANGED <<camera_vars, axes_in_play, router_vars, orbit_vars, loader_vars,
                   camera_mutex, keyboard, app_vars>>

\* camera_control.lock().unwrap(): blocks for as long as the mutex is held
Lock ==
    /\ handler.at = "lock"
    /\ camera_mutex = "free"
    /\ camera_mutex' = "held"
    /\ handler' = [handler EXCEPT !.locks = @ + 1, !.at = "locked"]
    /\ UNCHANGED <<camera_vars, axes_in_play, router_vars, orbit_vars, loader_vars,
                   keyboard, app_vars>>

\* the method called on the guard: move_*(Instant::now(), direction),
\* rotate(Instant::now(), delta_x, delta_y) or snapshot(now), the view matrix assigned
Operate ==
    /\ handler.at = "locked"
    /\ CASE handler.event.kind = "KeyboardInput" ->
                CallMove(Binding(handler.event).axis, Binding(handler.event).direction)
         [] handler.event.kind = "MouseMotion" ->
                CallRotate(handler.event.delta[1], handler.event.delta[2])
         [] handler.event.kind = "RedrawRequested" ->
                LET s == snapshot(camera_control, handler.now)
                IN  /\ CalledAt(s, "snapshot", "none", "None", handler.now)
                    /\ view_matrix' = s.matrix
                    /\ UNCHANGED projection_matrix
    /\ handler' = [handler EXCEPT !.at = "unlock"]
    /\ UNCHANGED <<axes_in_play, router_vars, orbit_vars, loader_vars, camera_mutex, keyboard,
                   app_vars>>

\* the end of the statement with the guard never dropped
Unlock_guard_leaked ==
    /\ handler.at = "unlock"
    /\ handler' = [handler EXCEPT !.at = "return"]
    /\ IF handler.event.kind = "RedrawRequested"
       THEN /\ projection_matrix' = Projection_matrix
            /\ UNCHANGED <<clock, camera_control, view_matrix, travel, last_call>>
       ELSE UNCHANGED camera_vars
    /\ UNCHANGED <<axes_in_play, router_vars, orbit_vars, loader_vars, camera_mutex, keyboard,
                   app_vars>>

\* the end of the statement: the guard is dropped; update_view_proj_matrices goes on
\* to assign the projection matrix
Unlock ==
    /\ handler.at = "unlock"
    /\ camera_mutex' = "free"
    /\ handler' = [handler EXCEPT !.at = "return"]
    /\ IF handler.event.kind = "RedrawRequested"
       THEN /\ projection_matrix' = Projection_matrix
            /\ UNCHANGED <<clock, camera_control, view_matrix, travel, last_call>>
       ELSE UNCHANGED camera_vars
    /\ UNCHANGED <<axes_in_play, router_vars, orbit_vars, loader_vars, keyboard, app_vars>>

\* self.mouse_pressed = true or false
SetPressed ==
    /\ handler.at = "set_pressed"
    /\ mouse_pressed' = (handler.event.state = "Pressed")
    /\ handler' = [handler EXCEPT !.at = "callback"]
    /\ UNCHANGED <<camera_vars, axes_in_play, dragged_last, last_event, orbit_vars,
                   loader_vars, camera_mutex, keyboard, app_vars>>

\* (self.mouse_dragged_fn)(dragging): the cursor is grabbed or let go
Callback ==
    /\ handler.at = "callback"
    /\ dragged_last' = IF handler.event.state = "Pressed" THEN "true" ELSE "false"
    /\ handler' = [handler EXCEPT !.at = "return"]
    /\ UNCHANGED <<camera_vars, axes_in_play, mouse_pressed, last_event, orbit_vars,
                   loader_vars, camera_mutex, keyboard, app_vars>>

\* the callback returns to the event loop
Return ==
    /\ handler.at = "return"
    /\ handler' = NoHandler
    /\ UNCHANGED <<camera_vars, axes_in_play, router_vars, orbit_vars, loader_vars,
                   camera_mutex, keyboard, app_vars>>

LockPass ==
    /\ Tick(MaxLockTime)
    /\ UNCHANGED <<axes_in_play, router_vars, orbit_vars, loader_vars, lock_vars, keyboard,
                   app_vars>>

NextLock ==
    \/ Dispatch
    \/ ReadNow
    \/ Lock
    \/ Operate
    \/ Unlock
    \/ SetPressed
    \/ Callback
    \/ Return
    \/ LockPass

SpecLock == Init /\ [][NextLock]_vars

----------------------------------------------------------------------------
(* SpecWrites: the hierarchy update with the order of its buffer writes, and *)
(* the handles of the nodes *)

\* the three queue.write_buffer calls update_buffers_inner makes for a node
OwnWrites(node) ==
    <<[node |-> node, buffer |-> "mvp_matrix"],
      [node |-> node, buffer |-> "mv_matrix"],
      [node |-> node, buffer |-> "normal_matrix"]>>

\* self.children: the children of a node in their order
children(node) ==
    [i \in 1 .. Cardinality(Children(solar_system, node)) |-> node \o <<i>>]

RECURSIVE InOrder(_)
\* `for child in &self.children`: what the calls on the children give, one after
\* the other
InOrder(calls) ==
    IF calls = <<>> THEN <<>> ELSE Head(calls) \o InOrder(Tail(calls))

RECURSIVE buffer_writes_children_first(_)
\* update_buffers_inner writing the buffers of a node after those of its children
buffer_writes_children_first(node) ==
    InOrder([i \in DOMAIN children(node) |->
                buffer_writes_children_first(children(node)[i])])
    \o OwnWrites(node)

RECURSIVE buffer_writes(_)
\* update_buffers_inner: the buffer writes of a node, then those of its children
buffer_writes(node) ==
    OwnWrites(node)
    \o InOrder([i \in DOMAIN children(node) |-> buffer_writes(children(node)[i])])

RECURSIVE collect_models(_)
\* collect_models: the handle of the node pushed, then those of its children
collect_models(node) ==
    <<node>> \o InOrder([i \in DOMAIN children(node) |-> collect_models(children(node)[i])])

\* RenderSolarObject::models
models == collect_models(<<>>)

\* update_buffers(time, queue, camera), its writes recorded as they are queued
UpdateLogged ==
    /\ \E time \in ElapsedTimes : WholeAngles(time) /\ update_buffers(time)
    /\ writes' = buffer_writes(<<>>)
    /\ UNCHANGED <<camera_vars, axes_in_play, router_vars, earlier_times, loader_vars,
                   lock_vars, keyboard, handles, render_target, frame, sphere>>

\* models()
Models ==
    /\ handles' = models
    /\ UNCHANGED <<camera_vars, axes_in_play, router_vars, orbit_vars, loader_vars,
                   lock_vars, keyboard, writes, render_target, frame, sphere>>

\* the shapes of the deeper trees: grandchildren before a second child of the root
DeepShapes ==
    {{<<>>, <<1>>, <<1, 1>>, <<2>>}, {<<>>, <<1>>, <<1, 1>>, <<1, 2>>, <<2>>}}

\* the deeper trees load_solar_objects returns in the model
DeepObjects ==
    UNION {{tree \in [shape -> RootBodies \cup ChildBodies] :
               /\ tree[<<>>] \in RootBodies
               /\ \A node \in shape \ {<<>>} : tree[node] \in ChildBodies} :
           shape \in DeepShapes}

InitWrites ==
    /\ InitCamera /\ InitRouter /\ InitLoaded /\ InitIdle /\ InitApp
    /\ solar_system \in {RenderSolarObject_new(tree) : tree \in SolarObjects \cup DeepObjects}
    /\ InitBuffers

NextWrites == UpdateLogged \/ Models

SpecWrites == InitWrites /\ [][NextWrites]_vars

----------------------------------------------------------------------------
(* model/sphere.rs: create_sphere, one iteration of its loops at a time.  The *)
(* sphere holds the numbers of vertices and indices pushed so far, the four   *)
(* corners of the last quad as u32 (quad) and as pushed (pushed).             *)

\* the number of values of a u16
U16Values == 65536

\* `as u16` that kept the low fifteen bits only
as_u16_low_15_bits(i) == i % (U16Values \div 2)

\* `as u16` of a u32: its low sixteen bits
as_u16(i) == i % U16Values

\* the largest segment count of the small spheres
MaxSegments == 4

\* the spheres the program builds
BuiltSpheres == {<<64, 128>>, <<16, 32>>}

\* the segment counts of the model: the small ones, those of the program, one that
\* gives 65536 vertices and one that gives more
SegmentCounts ==
    {<<lat, long>> : lat \in 0 .. MaxSegments, long \in 0 .. MaxSegments}
    \cup BuiltSpheres \cup {<<255, 255>>, <<255, 256>>}

\* create_sphere(.., lat_segments, long_segments) about to enter its vertex loops
create_sphere(lat_segments, long_segments) ==
    [NoSphere EXCEPT !.lat_segments = lat_segments, !.long_segments = long_segments,
                     !.at = "vertices"]

\* the loops `for y in 0..=last_y { for x in 0..=last_x {..} }` after the iteration
\* (y, x): the next iteration, or the place after the loops
NextIteration(self, last_y, last_x, after) ==
    IF self.x < last_x THEN [self EXCEPT !.x = self.x + 1]
    ELSE IF self.y < last_y THEN [self EXCEPT !.y = self.y + 1, !.x = 0]
    ELSE [self EXCEPT !.at = after, !.y = 0, !.x = 0]

\* the index loops have an iteration
HasQuads(self) == self.lat_segments > 0 /\ self.long_segments > 0

\* one iteration of the vertex loops: vertices.push(Vertex {..})
PushVertex ==
    /\ sphere.at = "vertices"
    /\ LET pushed == [sphere EXCEPT !.vertices = sphere.vertices + 1]
       IN  sphere' = NextIteration(pushed, sphere.lat_segments, sphere.long_segments,
                                   IF HasQuads(sphere) THEN "indices" ELSE "done")
    /\ UNCHANGED <<camera_vars, axes_in_play, router_vars, orbit_vars, loader_vars,
                   lock_vars, keyboard, writes, handles, render_target, frame>>

\* one iteration of the index loops: the two triangles of the quad at (y, x)
PushQuad ==
    /\ sphere.at = "indices"
    /\ LET i0 == sphere.y * (sphere.long_segments + 1) + sphere.x
           i1 == i0 + 1
           i2 == i0 + sphere.long_segments + 1
           i3 == i2 + 1
           pushed == [sphere EXCEPT
                         !.indices = sphere.indices + 6,
                         !.quad = <<i0, i2, i1, i1, i2, i3>>,
                         !.pushed = <<as_u16(i0), as_u16(i2), as_u16(i1),
                                      as_u16(i1), as_u16(i2), as_u16(i3)>>]
       IN  sphere' = NextIteration(pushed, sphere.lat_segments - 1,
                                   sphere.long_segments - 1, "done")
    /\ UNCHANGED <<camera_vars, axes_in_play, router_vars, orbit_vars, loader_vars,
                   lock_vars, keyboard, writes, handles, render_target, frame>>

InitSphere ==
    /\ InitInput
    /\ InitScene
    /\ InitLoaded
    /\ writes = <<>>
    /\ handles = <<>>
    /\ render_target = RenderTargetConfig_new(WindowSize)
    /\ frame = NoFrame
    /\ sphere \in {create_sphere(counts[1], counts[2]) : counts \in SegmentCounts}

NextSphere == PushVertex \/ PushQuad

SpecSphere == InitSphere /\ [][NextSphere]_vars

----------------------------------------------------------------------------
(* SpecFrame: the window events of the frame driver: redraws whose surface   *)
(* acquisition succeeds or fails, resizes and the request to close *)

MaxFrames == 3

MaxFrameTime == 1

MaxSize == 3

\* PhysicalSize<u32>
Sizes == [width : 0 .. MaxSize, height : 0 .. MaxSize]

\* what RenderTargetConfig::next_frame returns: Ok or a SurfaceError
SurfaceResults == {"Ok", "Timeout", "Outdated", "Lost", "OutOfMemory"}

\* match render_result with the arm of Lost and Outdated printing as that of Timeout
AfterRender_lost_ignored(result) ==
    CASE result \in {"Ok", "Timeout", "Lost", "Outdated"} -> "running"
      [] OTHER -> "exiting"

\* match render_result: the session after the frame
AfterRender(result) ==
    CASE result \in {"Ok", "Timeout"} -> "running"
      [] result \in {"Lost", "Outdated"} -> "panicked"     \* todo!("there should be resize")
      [] OTHER -> "exiting"                                 \* event_loop.exit()

\* WindowEvent::RedrawRequested: request_redraw, then render, whose next_frame()?
\* returns the error before anything else is done
Redraw ==
    /\ frame.session = "running"
    /\ frame.redraws < MaxFrames
    /\ \E result \in SurfaceResults :
          /\ IF result = "Ok"
             THEN LET s == snapshot(camera_control, clock)
                      camera == [view_matrix |-> s.matrix,
                                 projection_matrix |-> Projection_matrix]
                      written == update_buffers_inner(<<>>, 1000 * clock, camera,
                                                      Matrix4x4_identity, None)
                  IN  /\ Called(s, "snapshot", "none", "None")
                      /\ view_matrix' = s.matrix
                      /\ projection_matrix' = Projection_matrix
                      /\ buffers' = [node \in DOMAIN solar_system |->
                                        Some([mvp_matrix |-> written[node].mvp_matrix,
                                              mv_matrix |-> written[node].mv_matrix,
                                              normal_matrix |->
                                                  written[node].normal_matrix])]
                      /\ inner_calls' = [node \in DOMAIN solar_system |->
                                            Some(written[node].call)]
             ELSE UNCHANGED <<camera_vars, buffers, inner_calls>>
          /\ frame' = [session |-> AfterRender(result),
                       result |-> result,
                       redraws |-> frame.redraws + 1,
                       snapshots |-> frame.snapshots + IF result = "Ok" THEN 1 ELSE 0,
                       buffer_writes |-> frame.buffer_writes
                                         + IF result = "Ok"
                                           THEN 3 * Cardinality(DOMAIN solar_system)
                                           ELSE 0,
                       submits |-> frame.submits + IF result = "Ok" THEN 1 ELSE 0]
    /\ UNCHANGED <<axes_in_play, router_vars, solar_system, earlier_times, loader_vars,
                   lock_vars, keyboard, writes, handles, render_target, sphere>>

\* WindowEvent::Resized(new_size)
Resized ==
    /\ frame.session = "running"
    /\ \E new_size \in Sizes :
          render_target' = RenderTargetConfig_resize(render_target, new_size)
    /\ UNCHANGED <<camera_vars, axes_in_play, router_vars, orbit_vars, loader_vars,
                   lock_vars, keyboard, writes, handles, frame, sphere>>

\* WindowEvent::CloseRequested, or Escape pressed: event_loop.exit()
CloseRequested ==
    /\ frame.session = "running"
    /\ frame' = [frame EXCEPT !.session = "exiting"]
    /\ UNCHANGED <<camera_vars, axes_in_play, router_vars, orbit_vars, loader_vars,
                   lock_vars, keyboard, writes, handles, render_target, sphere>>

FramePass ==
    /\ Tick(MaxFrameTime)
    /\ UNCHANGED <<axes_in_play, router_vars, orbit_vars, loader_vars, lock_vars,
                   keyboard, app_vars>>

\* AppInner::new: the render target of a window of any size
InitFrame ==
    /\ InitInput
    /\ InitScene
    /\ InitLoaded
    /\ writes = <<>>
    /\ handles = <<>>
    /\ render_target \in {RenderTargetConfig_new(size) : size \in Sizes}
    /\ frame = NoFrame
    /\ sphere = NoSphere

NextFrame == Redraw \/ Resized \/ CloseRequested \/ FramePass

SpecFrame == InitFrame /\ [][NextFrame]_vars

----------------------------------------------------------------------------
\* The loading of a definitions file of any bodies.

\* the files of up to MaxBodies bodies
Definitions == UNION {[1 .. n -> SolarObjectRaw] : n \in 0 .. MaxBodies}

\* load_solar_objects("data/definitions.toml")
Load ==
    /\ loaded = NotLoaded
    /\ \E order \in IterationOrders : loaded' = load_solar_objects(definitions, order)
    /\ UNCHANGED <<camera_vars, axes_in_play, router_vars, orbit_vars, definitions,
                   lock_vars, keyboard, app_vars>>

InitLoad ==
    /\ InitCamera
    /\ InitRouter
    /\ InitScene
    /\ InitIdle
    /\ InitApp
    /\ definitions \in Definitions
    /\ loaded = NotLoaded

NextLoad == Load

SpecLoad == InitLoad /\ [][NextLoad]_vars

----------------------------------------------------------------------------
(* What the claims speak of *)

movements == camera_control.movements

position == camera_control.position

Idle(a) == movements[a].tag = "None"

\* +1, -1 or 0: the sign of a Change
Sign(change) ==
    CASE change.tag = "Positive" -> 1
      [] change.tag = "Negative" -> -1
      [] change.tag = "None" -> 0

\* the unit vectors an axis moves the camera along
Kind(a) ==
    CASE a = "forward" -> "view"
      [] a = "right" -> "right"
      [] a = "up" -> "up"

\* the part of a point that lies along the vectors of an axis
Along(point, a) == [k \in {u \in DOMAIN point : u.b = Kind(a)} |-> point[k]]

RECURSIVE SumOver(_, _)
SumOver(f, keys) ==
    IF keys = {} THEN 0
    ELSE LET k == CHOOSE u \in keys : TRUE IN f[k] + SumOver(f, keys \ {k})

\* the signed distance a point lies along the vectors of an axis
Odometer(point, a) == SumOver(Along(point, a), DOMAIN Along(point, a))

\* the displacement of an integrator not yet added to the position at now
Pending(change, now) ==
    Sign(change) * (ms_map(now - change.init) - ms_map(change.last - change.init))

StartDirections == {"Positive", "Negative"}

----------------------------------------------------------------------------
(* C1: partition invariance.  When a call with direction None stops an axis *)
(* that was started at t_start, the values Change::take returned for the    *)
(* axis since that start, the stopping call's take included, sum to         *)
(* sign * ms_map(t_stop - t_start), whatever calls were made in between.    *)
C1_PartitionInvariance ==
    [][\A a \in Axes :
          (~Idle(a) /\ camera_control'.movements[a].tag = "None")
          => travel'[a] = Sign(movements[a]) * ms_map(clock' - movements[a].init)]_vars

\* forward ran from 0 to 2 with a rotate at 1 in between: 1 before, 31 after
C1_Witness ==
    /\ Idle("forward")
    /\ travel["forward"] = ms_map(2)
    /\ last_call.op = "move" /\ last_call.now = 2
    /\ Along(position, "forward") =
           (ViewVector([az |-> 0, zen |-> 0]) :> 1)
           @@ (ViewVector([az |-> 0, zen |-> ZenithBound]) :> ms_map(2) - 1)

(* C2: no displacement after stop.  A call with direction None leaves the    *)
(* axis idle; no call made while the axis is idle moves the camera along     *)
(* the axis; and the axis stays idle until a move_* call starts it again.    *)
C2_NoDisplacementAfterStop ==
    [][\A a \in Axes :
          /\ Move(a, "None") => camera_control'.movements[a] = ChangeNone
          /\ Idle(a) => Along(camera_control'.position, a) = Along(position, a)
          /\ (Idle(a) /\ camera_control'.movements[a].tag # "None")
             => \E d \in StartDirections : Move(a, d)]_vars

\* forward ran from 0 to 1, a snapshot at 1 after the stop added nothing, and
\* a second has passed since
C2_Witness ==
    /\ Idle("forward")
    /\ Along(position, "forward") = (ViewVector([az |-> 0, zen |-> 0]) :> 1)
    /\ travel["forward"] = 0
    /\ last_call.op = "snapshot" /\ last_call.now = 1
    /\ clock = 2

(* C3: Change::take on Change::None returns 0 for every now and leaves the   *)
(* integrator Change::None.                                                  *)
C3_TakeOnIdle ==
    \A a \in Axes :
        Idle(a) => \A now \in 0 .. MaxTime :
                       Change_take(movements[a], now) = [self |-> ChangeNone, result |-> 0]

\* an idle axis after a snapshot at 2 that moved the camera along another axis
C3_Witness ==
    /\ last_call.op = "snapshot" /\ last_call.now = 2
    /\ \E a, b \in Axes : Idle(a) /\ ~Idle(b) /\ travel[b] = ms_map(2) /\ travel[a] = 0
                          /\ Odometer(position, a) = 0

(* C6: materialize, then reset.  A move_* call at now adds to the position   *)
(* the displacement pending on each of the three axes, as their integrators  *)
(* stood before the call, and then replaces the integrator of its axis; the  *)
(* integrators of the two other axes keep their phase and start.             *)
C6_MaterializeThenReset ==
    [][\A axis \in Axes, d \in MovementDirection :
          Move(axis, d)
          => /\ \A a \in Axes :
                   Odometer(camera_control'.position, a)
                   = Odometer(position, a) + Pending(movements[a], clock)
             /\ camera_control'.movements[axis] = NewChange(clock, d)
             /\ \A a \in Axes \ {axis} :
                   /\ camera_control'.movements[a].tag = movements[a].tag
                   /\ camera_control'.movements[a].init = movements[a].init]_vars

\* a move_* at 2 has stopped one axis and another axis is still running since 0:
\* the displacement of both up to 2 is in the position
C6_Witness ==
    /\ last_call.op = "move" /\ last_call.now = 2
    /\ \E a, b \in Axes :
          /\ Idle(a) /\ travel[a] = ms_map(2) /\ Odometer(position, a) = ms_map(2)
          /\ movements[b] = [tag |-> "Negative", init |-> 0, last |-> 2]
          /\ Odometer(position, b) = -ms_map(2)

(* C4, as amended: after any sequence of rotate calls, interleaved with      *)
(* move_* and snapshot calls, the zenith of view_direction lies in the      *)
(* closed interval [-0.49 * PI, 0.49 * PI]; both bounds are reached.        *)
C4_ZenithWithinBounds ==
    /\ camera_control.view_direction.zen >= -ZenithBound
    /\ camera_control.view_direction.zen <= ZenithBound
    /\ camera_control.view_direction.az \in 0 .. FullTurn - 1

(* C4 as claimed: the zenith lies strictly inside (-0.49 * PI, 0.49 * PI).   *)
C4_ZenithStrictlyInside ==
    /\ camera_control.view_direction.zen > -ZenithBound
    /\ camera_control.view_direction.zen < ZenithBound

\* a rotate at 1, while the camera moves up, has turned the view down to the bound
C4_Witness ==
    /\ last_call.op = "rotate" /\ last_call.now = 1
    /\ camera_control.view_direction.zen = -ZenithBound
    /\ camera_control.view_direction.az # 0
    /\ movements["up"] = [tag |-> "Positive", init |-> 0, last |-> 1]

(* C5: snapshot is an idempotent read.  A snapshot at now that follows a     *)
(* snapshot at the same now, with no other call between the two, returns    *)
(* the same view matrix and leaves position, view_direction and the three   *)
(* integrators as the first left them.                                      *)
C5_SnapshotIdempotent ==
    [][(last_call.op = "snapshot" /\ last_call.now = clock /\ Frame)
       => /\ view_matrix' = view_matrix
          /\ camera_control' = camera_control]_vars

\* a snapshot at 1 has moved the camera along two axes that are still running
C5_Witness ==
    /\ last_call.op = "snapshot" /\ last_call.now = 1
    /\ clock = 1
    /\ view_matrix = look_to_rh(position, camera_control.view_direction)
    /\ \E a, b \in Axes :
          /\ movements[a] = [tag |-> "Positive", init |-> 0, last |-> 1]
          /\ movements[b] = [tag |-> "Negative", init |-> 0, last |-> 1]
          /\ Odometer(position, a) = 1
          /\ Odometer(position, b) = -1

(* C7: rotation is gated by dragging.  Only a MouseMotion event received     *)
(* while mouse_pressed is true changes view_direction; a MouseMotion event   *)
(* received while mouse_pressed is false leaves the CameraControl as it was, *)
(* and so does the mouse button event that starts dragging afterwards.       *)
C7_RotationGated ==
    [][/\ camera_control'.view_direction # camera_control.view_direction
          => mouse_pressed /\ \E d \in MotionDeltas : MouseMotion(d[1], d[2])
       /\ \A d \in MotionDeltas :
             (MouseMotion(d[1], d[2]) /\ ~mouse_pressed)
             => UNCHANGED <<camera_control, travel, last_call>>
       /\ \A state \in ElementState, button \in MouseButtons :
             MouseInput(state, button) => UNCHANGED <<camera_control, travel, last_call>>
      ]_vars

\* a MouseMotion event at 1, after the drag has ended, while the camera moves:
\* nothing has been materialized at 1
C7_Witness ==
    /\ last_event = [kind |-> "MouseMotion", dragged |-> <<>>, button |-> "none"]
    /\ ~mouse_pressed
    /\ dragged_last = "false"
    /\ clock = 1
    /\ last_call.now = 0
    /\ \E a \in Axes : movements[a] = [tag |-> "Positive", init |-> 0, last |-> 0]

(* C8: the drag flag and the callback agree.  mouse_pressed is false until   *)
(* the first mouse_dragged_fn call and from then on equals the argument of   *)
(* the last call; a right button Pressed event sets the flag and calls       *)
(* mouse_dragged_fn(true) once, a right button Released event clears it and  *)
(* calls mouse_dragged_fn(false) once, and no other event changes the flag   *)
(* or calls mouse_dragged_fn.                                                *)
C8_DragFlagAgrees ==
    /\ [](IF dragged_last = "none" THEN ~mouse_pressed
          ELSE mouse_pressed = (dragged_last = "true"))
    /\ [][/\ MouseInput("Pressed", "Right")
             => mouse_pressed' /\ last_event'.dragged = <<TRUE>>
          /\ MouseInput("Released", "Right")
             => ~mouse_pressed' /\ last_event'.dragged = <<FALSE>>
          /\ (\/ mouse_pressed' # mouse_pressed
              \/ dragged_last' # dragged_last
              \/ last_event' # last_event /\ last_event'.dragged # <<>>)
             => /\ last_event'.button = "Right"
                /\ \E state \in ElementState : MouseInput(state, "Right")
         ]_vars

\* the right button has been pressed and released, and other events have followed
C8_Witness ==
    /\ dragged_last = "false"
    /\ ~mouse_pressed
    /\ last_event = [kind |-> "MouseInput", dragged |-> <<>>, button |-> "Left"]
    /\ camera_control.view_direction.zen = ZenithBound

\* the directions the claim gives the six keys
BoundKeys == {"KeyW", "KeyS", "KeyA", "KeyD", "Space", "ControlLeft"}

ClaimedAxis(key) ==
    CASE key \in {"KeyW", "KeyS"} -> "forward"
      [] key \in {"KeyA", "KeyD"} -> "right"
      [] key \in {"Space", "ControlLeft"} -> "up"

ClaimedSign(key) == IF key \in {"KeyW", "KeyD", "Space"} THEN "Positive" ELSE "Negative"

(* C9: the key binding.  A key event that is no repeat, for one of the six   *)
(* bound keys, sets the axis of the key to the sign of the key when pressed  *)
(* and to None when released, started at the time of the event; a repeated  *)
(* key event and an event for another key leave the CameraControl as it was. *)
C9_KeyBinding ==
    [][\A key \in KeyCodes, state \in ElementState, repeat \in BOOLEAN :
          KeyboardInput(key, state, repeat)
          => IF repeat \/ key \notin BoundKeys
             THEN UNCHANGED <<camera_control, travel, last_call>>
             ELSE LET direction == IF state = "Pressed" THEN ClaimedSign(key)
                                   ELSE "None"
                  IN  /\ camera_control'.movements[ClaimedAxis(key)]
                         = NewChange(clock, direction)
                      /\ last_call' = [op |-> "move", now |-> clock,
                                       axis |-> ClaimedAxis(key),
                                       direction |-> direction]]_vars

\* KeyA or ControlLeft pressed at 1 while the other axis runs since 0
C9_Witness ==
    /\ last_event.kind = "KeyboardInput"
    /\ last_call.op = "move" /\ last_call.now = 1
    /\ \E a \in {"right", "up"}, b \in Axes :
          /\ movements[a] = [tag |-> "Negative", init |-> 1, last |-> 1]
          /\ movements[b] = [tag |-> "Positive", init |-> 0, last |-> 1]

\* the six factors the claim names, of a node at an elapsed time of so many
\* milliseconds, in angles of 10 * 2 * PI * seconds / period and lengths of the
\* scaled distance and radii
ClaimedOrbit(node, time) ==
    LET period == solar_system[node].orbital_period_days
    IN  IF period = None THEN Matrix4x4_identity
        ELSE Matrix4x4_rotate(UP, (10 * FullTurn * time) \div (1000 * period[1]))

ClaimedTranslate(node, parent_radius) ==
    Matrix4x4_translate(
        Plus(distance_scaling(solar_system[node].distance_from_parent_km),
             IF parent_radius = None THEN Whole(0)
             ELSE Plus(radius_scaling(parent_radius[1]),
                       radius_scaling(solar_system[node].radius_km))))

ClaimedTilt(node) == Matrix4x4_rotate(unit_x, solar_system[node].tilt)

ClaimedSpin(node, time) ==
    Matrix4x4_rotate(UP, (10 * FullTurn * time)
                         \div (1000 * solar_system[node].rotation_period_days))

ClaimedScale(node) == Matrix4x4_scale(radius_scaling(solar_system[node].radius_km))

RECURSIVE Product(_)
\* the product of a sequence of matrices, in the order of the sequence
Product(matrices) ==
    IF matrices = <<>> THEN Matrix4x4_identity
    ELSE Matrix4x4_mul(Product(SubSeq(matrices, 1, Len(matrices) - 1)),
                       matrices[Len(matrices)])

(* C10: for every node of the hierarchy and every elapsed time, the model    *)
(* matrix update_buffers_inner computes is the product, in this order, of    *)
(* parent_matrix, orbit, translate, tilt, rotate (the spin), scale and the   *)
(* model matrix of the mesh, where parent_matrix is the identity at the root; *)
(* it is the matrix multiplied into the buffers written for the node.        *)
C10_ModelMatrixProduct ==
    \A node \in DOMAIN solar_system :
        inner_calls[node] # None
        => LET call == inner_calls[node][1]
           IN  /\ call.model_matrix
                  = Product(<<call.parent_matrix,
                              ClaimedOrbit(node, call.time),
                              ClaimedTranslate(node, call.parent_radius),
                              ClaimedTilt(node),
                              ClaimedSpin(node, call.time),
                              ClaimedScale(node),
                              solar_system[node].model_matrix>>)
               /\ node = <<>> => call.parent_matrix = Matrix4x4_identity
               /\ buffers[node] # None
               /\ buffers[node][1].mv_matrix.model = call.model_matrix
               /\ buffers[node][1].mvp_matrix.model = call.model_matrix

\* a grandchild updated at 1 second below a parent matrix that is not the identity,
\* none of its own five factors being the identity
C10_Witness ==
    /\ <<1, 1>> \in DOMAIN solar_system
    /\ inner_calls[<<1, 1>>] # None
    /\ LET call == inner_calls[<<1, 1>>][1]
       IN  /\ call.time = 1000
           /\ call.parent_matrix # Matrix4x4_identity
           /\ Len(call.model_matrix) = Len(call.parent_matrix) + 5
    /\ inner_calls[<<>>][1].parent_matrix = Matrix4x4_identity
    /\ inner_calls[<<>>][1].model_matrix # Matrix4x4_identity

\* the parent of a node that is not the root
Parent(node) == SubSeq(node, 1, Len(node) - 1)

\* the parent radius the claim has a node receive
ClaimedParentRadius(node) ==
    IF node = <<>> THEN None ELSE Some(solar_system[Parent(node)].radius_km)

RECURSIVE OrbitalFrame(_, _)
\* the orbital frame of a node: the orbits and offsets of its ancestors, from the
\* root down, which no tilt and no rotation period enters
OrbitalFrame(node, time) ==
    IF node = <<>> THEN Matrix4x4_identity
    ELSE Product(<<OrbitalFrame(Parent(node), time),
                   ClaimedOrbit(Parent(node), time),
                   ClaimedTranslate(Parent(node), ClaimedParentRadius(Parent(node)))>>)

(* C11: children inherit only the orbital frame.  The parent matrix a node    *)
(* hands each child is its own parent_matrix * orbit * translate and the      *)
(* parent radius it hands is its own radius, at every depth; so the parent    *)
(* matrix of every node is the product of the orbits and offsets of its       *)
(* ancestors, into which no ancestor's tilt, rotation period or scale enters  *)
(* except through the radius terms of the offsets.                            *)
C11_ChildrenInheritOrbitalFrame ==
    \A node \in DOMAIN solar_system :
        inner_calls[node] # None
        => LET call == inner_calls[node][1]
           IN  /\ call.parent_matrix = OrbitalFrame(node, call.time)
               /\ call.parent_radius = ClaimedParentRadius(node)
               /\ \A child \in Children(solar_system, node) :
                     /\ inner_calls[child] # None
                     /\ inner_calls[child][1].time = call.time
                     /\ inner_calls[child][1].parent_matrix
                        = Product(<<call.parent_matrix,
                                    ClaimedOrbit(node, call.time),
                                    ClaimedTranslate(node, call.parent_radius)>>)
                     /\ inner_calls[child][1].parent_radius
                        = Some(solar_system[node].radius_km)

\* a tilted, spinning child of radius 320000 has handed its own child, at 1 second,
\* a frame of two orbits and two offsets and its radius
C11_Witness ==
    /\ <<1, 1>> \in DOMAIN solar_system
    /\ inner_calls[<<1, 1>>] # None
    /\ solar_system[<<1>>].tilt # 0
    /\ solar_system[<<1>>].radius_km = 320000
    /\ inner_calls[<<1, 1>>][1].time = 1000
    /\ inner_calls[<<1, 1>>][1].parent_radius = Some(320000)
    /\ Len(inner_calls[<<1, 1>>][1].parent_matrix) = 4
    /\ inner_calls[<<1>>][1].model_matrix # inner_calls[<<1, 1>>][1].parent_matrix

(* C12: the root transform at time zero.  For a root without orbital period, *)
(* updated at elapsed time 0, the model matrix is scale(radius_scaling(R))    *)
(* alone, whatever the tilt field of the root is.                             *)
C12_RootTransformAtZero ==
    (/\ inner_calls[<<>>] # None
     /\ inner_calls[<<>>][1].time = 0
     /\ solar_system[<<>>].orbital_period_days = None)
    => inner_calls[<<>>][1].model_matrix = ClaimedScale(<<>>)

RECURSIVE Place(_)
\* where a matrix takes the origin: the matrix without the rotations and scales it
\* ends with, which leave the origin where it is
Place(matrix) ==
    IF matrix # <<>> /\ matrix[Len(matrix)].op \in {"rotate", "scale"}
    THEN Place(SubSeq(matrix, 1, Len(matrix) - 1))
    ELSE matrix

\* the length of the offset the claim gives a node
ClaimedOffset(node) ==
    IF node = <<>>
    THEN distance_scaling(solar_system[node].distance_from_parent_km)
    ELSE Plus(distance_scaling(solar_system[node].distance_from_parent_km),
              Plus(radius_scaling(solar_system[Parent(node)].radius_km),
                   radius_scaling(solar_system[node].radius_km)))

\* a translation along local X
AlongX(length) ==
    IF length = Whole(0) THEN <<>>
    ELSE <<[op |-> "translate", axis |-> unit_x, by |-> length]>>

(* C13: the orbit offset of a child.  In the tree of a root of radius 100      *)
(* without orbital period and a child of radius 10, orbital period 10 and      *)
(* distance 50, updated at 2.5 seconds, the child lies at the translation of   *)
(* length distance_scaling(50) + radius_scaling(100) + radius_scaling(10)      *)
(* along X, rotated about UP by time_scaling(2 * PI * 2.5 / 10), which is PI   *)
(* modulo 2 * PI.  In every tree a node lies, from where its parent lies, at   *)
(* its orbit rotation times the translation along X of length                  *)
(* distance_scaling(distance) + radius_scaling(parent radius)                  *)
(* + radius_scaling(own radius), the two radius terms being absent at the root. *)
C13_OrbitOffset ==
    /\ \A node \in DOMAIN solar_system :
          inner_calls[node] # None
          => Place(inner_calls[node][1].model_matrix)
             = Place(Product(<<IF node = <<>> THEN Matrix4x4_identity
                               ELSE Place(inner_calls[Parent(node)][1].model_matrix),
                               ClaimedOrbit(node, inner_calls[node][1].time),
                               AlongX(ClaimedOffset(node))>>))
    /\ (/\ solar_system = RenderSolarObject_new(TwoBodies)
        /\ inner_calls[<<1>>] # None
        /\ inner_calls[<<1>>][1].time = 2500)
       => Place(inner_calls[<<1>>][1].model_matrix)
          = <<[op |-> "rotate", axis |-> UP, by |-> FullTurn \div 2],
              [op |-> "translate", axis |-> unit_x,
               by |-> ([fn |-> "distance_scaling", of |-> 50] :> 1)
                      @@ ([fn |-> "radius_scaling", of |-> 100] :> 1)
                      @@ ([fn |-> "radius_scaling", of |-> 10] :> 1)]>>

\* the two bodies updated at 2.5 seconds
C13_Witness ==
    /\ solar_system = RenderSolarObject_new(TwoBodies)
    /\ inner_calls[<<1>>] # None
    /\ inner_calls[<<1>>][1].time = 2500
    /\ inner_calls[<<1>>][1].parent_matrix = Matrix4x4_identity
    /\ Len(inner_calls[<<1>>][1].model_matrix) = 4
    /\ Place(inner_calls[<<>>][1].model_matrix) = Matrix4x4_identity

\* what an update at an elapsed time under a camera writes for a node, from the tree,
\* the time and the camera alone
ModelOf(node, time) ==
    Product(<<OrbitalFrame(node, time),
              ClaimedOrbit(node, time),
              ClaimedTranslate(node, ClaimedParentRadius(node)),
              ClaimedTilt(node),
              ClaimedSpin(node, time),
              ClaimedScale(node),
              solar_system[node].model_matrix>>)

WrittenBy(time, view, projection) ==
    [node \in DOMAIN solar_system |->
        Some([mvp_matrix |-> [projection |-> projection, view |-> view,
                              model |-> ModelOf(node, time)],
              mv_matrix |-> [view |-> view, model |-> ModelOf(node, time)],
              normal_matrix |-> [inverse_transpose_of |-> ModelOf(node, time),
                                 negated |-> solar_system[node].inverse_normals]])]

(* C14: the hierarchy update is a function of the elapsed time.  Every       *)
(* update_buffers call writes to every node's buffers the value that the     *)
(* tree, the camera's view and projection matrices and the elapsed time of   *)
(* the call determine, whatever update_buffers calls were made before it, at *)
(* whatever elapsed times and in whatever order.                             *)
C14_PureFunctionOfElapsed ==
    [][\A time \in ElapsedTimes :
          update_buffers(time)
          => buffers' = WrittenBy(time, view_matrix, projection_matrix)]_vars

\* an update at 1 second under a turned camera, after updates at 2 seconds and at 0
C14_Witness ==
    /\ inner_calls[<<>>] # None
    /\ inner_calls[<<>>][1].time = 1000
    /\ {0, 2000} \subseteq earlier_times
    /\ <<1>> \in DOMAIN solar_system
    /\ buffers = WrittenBy(1000, view_matrix, Projection_matrix)
    /\ view_matrix # IdentityView

(* C15: the sign flip of the normal matrix applies to the root only.  In     *)
(* every hierarchy built by RenderSolarObject::new the inverse_normals flag  *)
(* is true for the root and false for every descendant at every depth, and   *)
(* the normal matrix an update writes for a node is the inverse transpose of *)
(* its model matrix, multiplied by scale(-1, -1, -1) exactly when the node   *)
(* is the root.                                                              *)
C15_RootOnlyInverseNormals ==
    \A node \in DOMAIN solar_system :
        /\ solar_system[node].inverse_normals = (node = <<>>)
        /\ buffers[node] # None
           => buffers[node][1].normal_matrix
                 = [inverse_transpose_of |-> inner_calls[node][1].model_matrix,
                    negated |-> node = <<>>]

\* a hierarchy three deep, its normal matrices written: negated at the root alone
C15_Witness ==
    /\ <<1, 1>> \in DOMAIN solar_system
    /\ buffers[<<>>] # None
    /\ buffers[<<>>][1].normal_matrix.negated
    /\ ~buffers[<<1>>][1].normal_matrix.negated
    /\ ~buffers[<<1, 1>>][1].normal_matrix.negated
    /\ inner_calls[<<>>][1].time = 1000

\* the names of the bodies of the file
Defined == {definitions[i].name : i \in DOMAIN definitions}

\* the bodies of the file whose parent field names the body
ChildrenOf(name) == {i \in DOMAIN definitions : definitions[i].parent = Some(name)}

\* a body of the file has a parent that no body of the file is
UndefinedParent ==
    \E i \in DOMAIN definitions :
        /\ definitions[i].parent # None
        /\ definitions[i].parent[1] \notin Defined

(* C16: an undefined parent reference is fatal at load.  When the body list  *)
(* contains a body whose parent names a body that is not in the list,        *)
(* load_solar_objects panics and returns no tree.                            *)
C16_UndefinedParentFatal ==
    (loaded # NotLoaded /\ UndefinedParent) => loaded.outcome = "panicked"

RECURSIVE Descendants(_, _)
\* the bodies reached from those of a set along at most `steps` parent references,
\* followed from parent to child
Descendants(bodies, steps) ==
    IF steps = 0 THEN bodies
    ELSE LET next == bodies \cup UNION {ChildrenOf(definitions[i].name) : i \in bodies}
         IN  Descendants(next, steps - 1)

\* the parent references of some bodies of the file form a cycle
ParentCycle ==
    \E i \in DOMAIN definitions :
        i \in Descendants(ChildrenOf(definitions[i].name), Len(definitions))

(* C17: a cycle of parent references is fatal at load.  When the body list   *)
(* contains bodies whose parent references form a cycle, load_solar_objects  *)
(* panics and returns no tree.                                               *)
C17_CycleFatal ==
    (loaded # NotLoaded /\ ParentCycle) => loaded.outcome = "panicked"

RECURSIVE NodesOf(_, _, _)
\* the nodes of a tree of SolarObject: the path, the name and the name of the node
\* whose children list holds it
NodesOf(tree, path, under) ==
    {[path |-> path, name |-> tree.name, under |-> under]}
    \cup UNION {NodesOf(tree.children[i], path \o <<i>>, Some(tree.name)) :
                    i \in DOMAIN tree.children}

(* C18: the shape of the loaded hierarchy.  Whenever load_solar_objects      *)
(* returns, the result is a tree whose root is the body named "Sun", every   *)
(* name occurs in it at most once, and every node but the root is in the     *)
(* children list of the node whose name is the parent field of its body.     *)
C18_TreeShape ==
    loaded.outcome = "returned"
    => LET nodes == NodesOf(loaded.sun, <<>>, None)
           map == HashMap_from_iter(definitions)
       IN  /\ loaded.sun.name = "Sun"
           /\ \A one, other \in nodes : one.name = other.name => one.path = other.path
           /\ \A node \in nodes :
                 /\ node.name \in DOMAIN map
                 /\ node.path # <<>> => map[node.name].parent = node.under

\* the Moon under the Earth under the Sun, from a file that lists the Moon first
C18_Witness ==
    /\ loaded.outcome = "returned"
    /\ definitions[1].name = "Moon"
    /\ loaded.sun = [name |-> "Sun",
                     children |-> <<[name |-> "Earth",
                                     children |-> <<[name |-> "Moon",
                                                     children |-> <<>>]>>]>>]

\* the positions of a callback between its lock() and the end of that statement
UnderLock == {"locked", "unlock"}

\* the callbacks that call a method of the CameraControl
TakesCamera(event) == Entry(event) \in {"lock", "read_now"}

(* C19: access to the shared CameraControl is atomic and free of deadlock.   *)
(* A callback is about to lock the camera mutex only when the mutex is free; *)
(* the mutex is held exactly between the lock() of a callback and the end of *)
(* that statement, never while mouse_dragged_fn is called and never when the *)
(* callback has returned; a callback locks at most once, and exactly once    *)
(* when it has called a method of the CameraControl; and the CameraControl   *)
(* changes only in a step made wholly under the lock.                        *)
C19_AtomicDeadlockFree ==
    /\ [](/\ handler.at = "lock" => camera_mutex = "free"
          /\ camera_mutex = "held" <=> handler.at \in UnderLock
          /\ handler.locks <= 1
          /\ handler.at \in UnderLock => handler.locks = 1
          /\ handler.at = "return"
             => handler.locks = IF TakesCamera(handler.event) THEN 1 ELSE 0
          /\ handler.at \in {"set_pressed", "callback"} => handler.locks = 0)
    /\ [][camera_control' # camera_control \/ last_call' # last_call
            => /\ camera_mutex = "held" /\ camera_mutex' = "held"
               /\ handler.at = "locked" /\ handler'.at = "unlock"]_vars

\* the frame's snapshot made under the lock, at a now read before the lock was taken
C19_Witness ==
    /\ handler.event.kind = "RedrawRequested"
    /\ handler.at = "unlock"
    /\ camera_mutex = "held"
    /\ handler.locks = 1
    /\ last_call.op = "snapshot"
    /\ last_call.now < clock

(* C20: the invariant of the movement state.  In every reachable state of    *)
(* the CameraControl each axis that is not idle has last >= init, and as     *)
(* long as an axis stays in its run (no move_* call has replaced its Change) *)
(* its last never decreases, under the timestamps the program supplies: the  *)
(* input callbacks read the clock after they have taken the lock, the frame  *)
(* reads it before it calls snapshot.                                        *)
C20_LastNeverBeforeInit ==
    /\ [](\A a \in Axes : ~Idle(a) => movements[a].last >= movements[a].init)
    /\ [][\A a \in Axes :
            (/\ ~Idle(a)
             /\ camera_control'.movements[a].tag = movements[a].tag
             /\ camera_control'.movements[a].init = movements[a].init)
            => camera_control'.movements[a].last >= movements[a].last]_vars

\* a frame has taken from an axis under way: its last is the frame's now, after its init
C20_Witness ==
    /\ \E a \in Axes : ~Idle(a) /\ movements[a].last > movements[a].init
    /\ last_call.op = "snapshot"
    /\ handler.event.kind = "RedrawRequested"
    /\ handler.at = "unlock"

(* C22, as amended: starting an integrator that already runs in the same     *)
(* direction keeps its phase and restarts it.  A move_* call at now with     *)
(* direction Positive on an axis that is Positive (likewise Negative on      *)
(* Negative) leaves the axis in that phase with init and last both set to    *)
(* now, after the displacement pending on the axis has been added to the     *)
(* position: the acceleration curve restarts at now.                         *)
C22_SameDirectionRestarts ==
    [][\A axis \in Axes, d \in StartDirections :
          (Move(axis, d) /\ movements[axis].tag = d)
          => /\ camera_control'.movements[axis] = [tag |-> d, init |-> clock, last |-> clock]
             /\ Odometer(camera_control'.position, axis)
                = Odometer(position, axis) + Pending(movements[axis], clock)]_vars

(* C22 as claimed: the call leaves the start time of the axis as it was.     *)
C22_SameDirectionKeepsInit ==
    [][\A axis \in Axes, d \in StartDirections :
          (Move(axis, d) /\ movements[axis].tag = d)
          => camera_control'.movements[axis].init = movements[axis].init]_vars

\* a start at 2 of an axis whose displacement since 0 is in the position: the axis runs
\* from 2 on
C22_Witness ==
    /\ last_call.op = "move" /\ last_call.now = 2 /\ last_call.direction = "Positive"
    /\ movements[last_call.axis] = [tag |-> "Positive", init |-> 2, last |-> 2]
    /\ Odometer(position, last_call.axis) = ms_map(2)

(* C23: the frame of a direction change.  A move_forw_backw, move_sideways   *)
(* or move_vertical call changes the phase and the start time of its own     *)
(* axis only: each of the two other axes keeps its phase and its init, its   *)
(* last is now when it is under way and is untouched when it is idle, and    *)
(* view_direction is as it was.                                              *)
C23_DirectionChangeFrame ==
    [][\A axis \in Axes, d \in MovementDirection :
          Move(axis, d)
          => /\ camera_control'.view_direction = camera_control.view_direction
             /\ \A a \in Axes \ {axis} :
                   camera_control'.movements[a]
                   = IF Idle(a) THEN movements[a]
                     ELSE [movements[a] EXCEPT !.last = clock]]_vars

\* a stop at 2 of one axis, after the view was turned, while another axis started at 0
\* is under way: that axis has its init and the last of the call
C23_Witness ==
    /\ last_call.op = "move" /\ last_call.now = 2 /\ last_call.direction = "None"
    /\ camera_control.view_direction.zen # 0
    /\ \E a \in Axes \ {last_call.axis} :
          movements[a] = [tag |-> "Positive", init |-> 0, last |-> 2]

\* the point reached from a point by the displacement pending on the three axes at
\* now, along the vectors of a view direction
Flushed(point, view_direction, now) ==
    AddScaled(AddScaled(AddScaled(point,
                                  ViewVector(view_direction),
                                  Pending(movements["forward"], now)),
                        RightVector(view_direction),
                        Pending(movements["right"], now)),
              UP,
              Pending(movements["up"], now))

(* C24: rotate materializes before it turns.  A rotate call at now adds the  *)
(* displacement pending on the three axes up to now to the position along    *)
(* the view direction and the right vector of before the call, and leaves    *)
(* the phase and the init of every axis as they were, the last of an axis    *)
(* under way being now: the movement goes on along the new direction from    *)
(* now on, on the same acceleration curve.                                   *)
C24_RotateMaterializesFirst ==
    [][\A d \in TurnDeltas :
          CallRotate(d[1], d[2])
          => /\ camera_control'.position
                = Flushed(position, camera_control.view_direction, clock)
             /\ \A a \in Axes :
                   camera_control'.movements[a]
                   = IF Idle(a) THEN movements[a]
                     ELSE [movements[a] EXCEPT !.last = clock]]_vars

\* a rotate at 1 while the camera moves forward and to the right since 0: what was
\* pending lies along the vectors of the direction before the turn
C24_Witness ==
    /\ last_call.op = "rotate" /\ last_call.now = 1
    /\ camera_control.view_direction = [az |-> 450, zen |-> 300]
    /\ movements["forward"] = [tag |-> "Positive", init |-> 0, last |-> 1]
    /\ movements["right"] = [tag |-> "Positive", init |-> 0, last |-> 1]
    /\ position = AddScaled(AddScaled(Origin, ViewVector([az |-> 0, zen |-> 0]), ms_map(1)),
                            RightVector([az |-> 0, zen |-> 0]), ms_map(1))

\* the zenith a pitch of delta_y pixels aims at, in units of ROTATION_MULTIPLIER
Target(delta_y) == camera_control.view_direction.zen + delta_y

(* C25: only the clamped pitch is applied.  After rotate(now, delta_x,       *)
(* delta_y) the zenith is the zenith before plus delta_y * k when that sum   *)
(* lies within [-0.49 * PI, 0.49 * PI], the upper bound when the sum lies    *)
(* above and the lower bound when it lies below; the yaw of delta_x * k      *)
(* about UP turns the azimuth and leaves the zenith to the pitch alone.      *)
C25_ClampedPitch ==
    [][\A d \in WideDeltas :
          CallRotate(d[1], d[2])
          => /\ Target(d[2]) \in -ZenithBound .. ZenithBound
                => camera_control'.view_direction.zen = Target(d[2])
             /\ Target(d[2]) > ZenithBound
                => camera_control'.view_direction.zen = ZenithBound
             /\ Target(d[2]) < -ZenithBound
                => camera_control'.view_direction.zen = -ZenithBound
             /\ camera_control'.view_direction.az
                = (camera_control.view_direction.az + d[1]) % FullTurn]_vars

\* two rotations of 450 by 300 pixels: the first pitch applied whole, the second cut
\* at the bound, the yaw twice
C25_Witness ==
    /\ last_call.op = "rotate"
    /\ camera_control.view_direction = [az |-> 900, zen |-> ZenithBound]

\* the other key of the axis of a key
Opposite(key) ==
    CASE key = "KeyW" -> "KeyS"
      [] key = "KeyS" -> "KeyW"
      [] key = "KeyA" -> "KeyD"
      [] key = "KeyD" -> "KeyA"
      [] key = "Space" -> "ControlLeft"
      [] key = "ControlLeft" -> "Space"

(* C27: overlapping opposite keys.  After any sequence of key events the     *)
(* phase of each axis is given by the last event, repeats left out, on       *)
(* either of the two keys of the axis: the sign of the key when it was       *)
(* pressed, idle when it was released (or when there was no event); so the   *)
(* release of one key stops the axis while the opposite key is still down,   *)
(* and the axis is idle until the next press.                                *)
C27_LastEventDecides ==
    \A a \in Axes :
        movements[a].tag = IF keyboard.recent[a].state = "Pressed"
                           THEN ClaimedSign(keyboard.recent[a].key)
                           ELSE "None"

\* an axis is idle at 1, stopped by the release of one key at 0 while the opposite
\* key is down
C27_Witness ==
    /\ clock = 1
    /\ last_call.op = "move" /\ last_call.now = 0 /\ last_call.direction = "None"
    /\ \E a \in Axes :
          /\ last_call.axis = a
          /\ Idle(a)
          /\ keyboard.recent[a].state = "Released"
          /\ Opposite(keyboard.recent[a].key) \in keyboard.down

\* every body of the map has a parent, the Sun aside, and there is a Sun
AllButSunHaveParent ==
    LET map == HashMap_from_iter(definitions)
    IN  /\ "Sun" \in DOMAIN map
        /\ \A name \in DOMAIN map \ {"Sun"} : map[name].parent # None

(* C28: load_recursive terminates.  For every body list in which every body  *)
(* but the Sun has a parent the load returns, after one load_recursive call  *)
(* for each node of the tree and so no more calls than the map has bodies;   *)
(* the bodies left in the map are those of the map that are not in the tree, *)
(* the map having never grown; and for no body list does the lookup          *)
(* expect("It exists") fail.                                                 *)
C28_LoadTerminates ==
    loaded # NotLoaded
    => /\ loaded.message # "It exists"
       /\ AllButSunHaveParent
          => LET map == HashMap_from_iter(definitions)
                 names == {node.name : node \in NodesOf(loaded.sun, <<>>, None)}
             IN  /\ loaded.outcome = "returned"
                 /\ loaded.calls = Cardinality(names)
                 /\ loaded.calls <= Cardinality(DOMAIN map)
                 /\ loaded.left = DOMAIN map \ names

\* two siblings under the Sun, each taken out of the map by the call of the Sun
C28_Witness ==
    /\ loaded.outcome = "returned"
    /\ Len(loaded.sun.children) = 2
    /\ loaded.calls = 3
    /\ loaded.left = {}

\* what the frames of the session have done so far
FrameWork == <<frame.snapshots, frame.buffer_writes, frame.submits, camera_control,
               view_matrix, buffers, last_call>>

(* C21: the frame update after a surface failure.  A frame whose next_frame  *)
(* fails takes no camera snapshot, writes no buffer and submits nothing to   *)
(* the queue; and once a frame has failed with Lost or Outdated the session  *)
(* is over: no later frame runs.                                             *)
C21_NoFrameAfterSurfaceFailure ==
    /\ [][(frame'.redraws # frame.redraws /\ frame'.result # "Ok")
            => FrameWork' = FrameWork]_vars
    /\ [][frame.result \in {"Lost", "Outdated"}
            => frame' = frame /\ FrameWork' = FrameWork]_vars
    /\ [](frame.result \in {"Lost", "Outdated"} => frame.session = "panicked")

\* the surface was lost at the third frame, after one frame drawn and one timed out
C21_Witness ==
    /\ frame.result = "Lost"
    /\ frame.session = "panicked"
    /\ frame.redraws = 3
    /\ frame.snapshots = 1
    /\ frame.submits = 1
    /\ frame.buffer_writes = 3
    /\ clock = 1

(* C29: the size of the render target.  After RenderTargetConfig::new and    *)
(* after any resize calls with any sizes, a width or a height of 0 included, *)
(* the width and the height of the surface configuration are at least 1 and  *)
(* the depth texture has the width and the height of the configuration.      *)
C29_RenderTargetSize ==
    /\ render_target.config.width >= 1
    /\ render_target.config.height >= 1
    /\ render_target.depth_texture = render_target.config

\* a resize to 0 by 0: surface and depth texture are 1 by 1
C29_Witness ==
    /\ render_target.resized
    /\ render_target.requested = [width |-> 0, height |-> 0]
    /\ render_target.config = [width |-> 1, height |-> 1]
    /\ render_target.depth_texture = [width |-> 1, height |-> 1]

\* a path is a proper prefix of another: the node is an ancestor of the other
Ancestor(p, q) == Len(p) < Len(q) /\ SubSeq(q, 1, Len(p)) = p

\* the first path comes before the second in the pre-order of the tree: it is an
\* ancestor of it, or where the two part the first takes the earlier child
PreOrderBefore(p, q) ==
    \/ Ancestor(p, q)
    \/ \E k \in 1 .. Len(p) :
          k <= Len(q) /\ SubSeq(p, 1, k - 1) = SubSeq(q, 1, k - 1) /\ p[k] < q[k]

\* the places of a sequence that hold a value
Places(seq, value) == {i \in DOMAIN seq : seq[i] = value}

(* C26: the per-frame update is a pre-order rewrite of the buffers that      *)
(* changes nothing in the tree.  One update_buffers call writes the mvp, the *)
(* mv and the normal buffer of every node once each, those of a node before  *)
(* those of any of its descendants, and leaves the tree as it was; models()  *)
(* returns one handle for every node, the root first and the nodes in the    *)
(* order in which the update writes them.                                    *)
C26_PreOrderRewrite ==
    /\ [](writes # <<>>
          => /\ \A node \in DOMAIN solar_system :
                   \A buffer \in {"mvp_matrix", "mv_matrix", "normal_matrix"} :
                       Cardinality(Places(writes, [node |-> node, buffer |-> buffer])) = 1
             /\ Len(writes) = 3 * Cardinality(DOMAIN solar_system)
             /\ \A i, j \in DOMAIN writes :
                   Ancestor(writes[i].node, writes[j].node) => i < j
             /\ \A node \in DOMAIN solar_system : buffers[node] # None)
    /\ [](handles # <<>>
          => /\ \A node \in DOMAIN solar_system : Cardinality(Places(handles, node)) = 1
             /\ Len(handles) = Cardinality(DOMAIN solar_system)
             /\ handles[1] = <<>>
             /\ \A i, j \in DOMAIN handles :
                   i < j => PreOrderBefore(handles[i], handles[j])
             /\ writes # <<>>
                => \A k \in DOMAIN handles : writes[3 * k].node = handles[k])
    /\ [][solar_system' = solar_system]_vars

\* a tree three deep with a second child of the root, updated and its handles taken
C26_Witness ==
    /\ {<<1, 1>>, <<2>>} \subseteq DOMAIN solar_system
    /\ writes # <<>>
    /\ handles = <<<<>>, <<1>>, <<1, 1>>, <<1, 2>>, <<2>>>>
    /\ writes[15].node = <<2>>

(* C30: create_sphere emits (lat_segments+1)*(long_segments+1) vertices and  *)
(* 6*lat_segments*long_segments indices.  While the number of vertices is at *)
(* most 65536 (the 64x128 and the 16x32 sphere among them), every index      *)
(* pushed as u16 is the u32 it was computed as and is smaller than the       *)
(* number of vertices; with more vertices the pushed index is the u32 modulo *)
(* 2^16.                                                                     *)
C30_SphereIndexBounds ==
    LET count == (sphere.lat_segments + 1) * (sphere.long_segments + 1)
    IN  /\ sphere.at \in {"indices", "done"} => sphere.vertices = count
        /\ sphere.at = "done"
           => sphere.indices = 6 * sphere.lat_segments * sphere.long_segments
        /\ sphere.pushed # <<>>
           => \A k \in 1 .. 6 :
                 /\ count <= 65536
                    => /\ sphere.pushed[k] = sphere.quad[k]
                       /\ sphere.pushed[k] < sphere.vertices
                 /\ count > 65536
                    => sphere.pushed[k] = sphere.quad[k] % 65536

\* the sphere of 256 by 256 vertices finished: its last index is the largest u16
C30_Witness ==
    /\ sphere.at = "done"
    /\ sphere.vertices = 65536
    /\ sphere.indices = 6 * 255 * 255
    /\ sphere.pushed = sphere.quad
    /\ sphere.pushed[6] = 65535

=============================================================================
